---- MODULE Spec2Model ----
(***************************************************************************)
(* SkeletonIKSolver (lib/Backend/DuoRecord/skeleton_ik_solver.py) as a     *)
(* state machine: the solver's fields, one action per public method.       *)
(*                                                                         *)
(* Numbers.  Space is one-dimensional and integral: a keypoint is an       *)
(* integer coordinate, a 4x4 homogeneous transform is the 2x2 matrix       *)
(* ((r, t), (0, 1)) of the affine map x |-> r*x + t, an Euler angle is a   *)
(* multiple of pi (0 or 1), its rotation r = 1 or -1.  Scales              *)
(* and locations are fixed-point numerators over ScaleDen and LocDen.      *)
(* Time is counted in units of the smoothing half-width.  Indices are      *)
(* 0-based as in the source; At(s, i) reads s[i] of a Python sequence.     *)
(***************************************************************************)
EXTENDS Integers, Sequences, FiniteSets, TLC

VARIABLES
    optim_bone_euler,      \* self.optim_bone_euler: one angle per optimizable bone
    align_scale,           \* self.align_scale (numerator over ScaleDen)
    euler_angle_history,   \* self.euler_angle_history: list of (euler, t)
    location_history,      \* self.location_history: list of (location, t)
    last,                  \* the last call on the solver: its arguments and outcome
    calls,                 \* timestamps of the fit calls that returned, in call order
    fcall,                 \* the last call of a module-level function or of the constructor
    servo,                 \* a TrackingSystem driven through its methods (Backend/Tracking.py)
    tracking,              \* lib/Backend/Flutter.py: its globals, its request handlers, its workers
    livecap,               \* Backend/LiveCap.py: its globals, its callers, its capture workers
    camera,                \* CameraController (lib/backend/camera_controller.py) and its threads
    reader                 \* RaspberryPi5Camera._read_frames (python_scripts/stream_camera.py)

vars == <<optim_bone_euler, align_scale, euler_angle_history, location_history,
          last, calls, fcall, servo, tracking, livecap, camera, reader>>

\* the camera and servo programs, which the solver's methods leave alone
devices == <<servo, tracking, livecap, camera, reader>>

\* the solver and its callers, which the camera and servo programs leave alone
core == <<optim_bone_euler, align_scale, euler_angle_history, location_history,
          last, calls, fcall>>

solver == <<optim_bone_euler, align_scale, euler_angle_history, location_history>>

-----------------------------------------------------------------------------
(* Bounds of the model *)

MaxFits == 2      \* fit calls per behaviour on arbitrary frames
MaxSamples == 3   \* fit calls per behaviour on the steady frame
MaxT == 1         \* timestamps and query times are 0..MaxT
MaxBones == 3     \* bones of a hierarchy handed to the kinematic evaluator

-----------------------------------------------------------------------------
(* Python sequences, 0-based *)

At(s, i) == s[i + 1]

InRange(s, i) == i >= 0 /\ i < Len(s)

Abs(x) == IF x < 0 THEN -x ELSE x

RECURSIVE SumSeq(_)
SumSeq(s) == IF s = <<>> THEN 0 ELSE Head(s) + SumSeq(Tail(s))

RECURSIVE ProdSeq(_)
ProdSeq(s) == IF s = <<>> THEN 1 ELSE Head(s) * ProdSeq(Tail(s))

RECURSIVE Masked(_, _)
\* s[mask]: the elements of s whose mask entry is TRUE, in order
Masked(s, mask) ==
    IF s = <<>> THEN <<>>
    ELSE (IF Head(mask) THEN <<Head(s)>> ELSE <<>>) \o Masked(Tail(s), Tail(mask))

IndexOf(s, x) == CHOOSE i \in 0..(Len(s) - 1) : At(s, i) = x

Contains(s, x) == \E i \in 1..Len(s) : s[i] = x

-----------------------------------------------------------------------------
(* Matrices: rows of a 2x2 matrix; ((r, t), (0, 1)) is x |-> r*x + t *)

Dim == 1..2

Affine(r, t) == <<<<r, t>>, <<0, 1>>>>

\* the rotation part m[:1, :1] and the translation part m[:1, 1]
Rot(m) == m[1][1]

Trans(m) == m[1][2]

eye == <<<<1, 0>>, <<0, 1>>>>

\* a product with the factors in the other order
mmSwapped(A, B) == [i \in Dim |-> [j \in Dim |-> B[i][1] * A[1][j] + B[i][2] * A[2][j]]]

mm(A, B) == [i \in Dim |-> [j \in Dim |-> A[i][1] * B[1][j] + A[i][2] * B[2][j]]]

transpose(A) == [i \in Dim |-> [j \in Dim |-> A[j][i]]]

\* utils3d.euler_angle_to_matrix: the rotation by angle*pi about the origin
euler_angle_to_matrix(angle) == Affine(IF angle % 2 = 0 THEN 1 ELSE -1, 0)

-----------------------------------------------------------------------------
(* The skeleton the solver is constructed from *)

None == "None"

keypoints == <<"hip", "knee", "ankle">>

K == Len(keypoints)

all_bone_names == <<"hips", "tail", "leg", "foot">>

all_bone_parents ==
    [b \in {"hips", "tail", "leg", "foot"} |->
        CASE b = "hips" -> None
          [] b = "tail" -> "hips"
          [] b = "leg"  -> "hips"
          [] b = "foot" -> "leg"]

\* bone-to-parent rest transforms, in all_bone_names order
all_bone_matrix ==
    << Affine(1, 0), Affine(1, -1), Affine(1, 1), Affine(1, 2) >>

skeleton_remap == [k \in {"hip", "knee", "ankle"} |->
    CASE k = "hip" -> "hips" [] k = "knee" -> "leg" [] k = "ankle" -> "foot"]

bone_subset == <<"hips", "leg", "foot">>

optimizable_bones == <<"leg">>

\* the table holding positions counted from one
ParentTableOneBased(names, bone_parents, order) ==
    [i \in 1..Len(order) |->
        IF bone_parents[order[i]] # None
        THEN IndexOf(names, bone_parents[order[i]]) + 1 ELSE -1]

\* [(names.index(bone_parents[b]) if bone_parents[b] is not None else -1) for b in order]
ParentTable(names, bone_parents, order) ==
    [i \in 1..Len(order) |->
        IF bone_parents[order[i]] # None
        THEN IndexOf(names, bone_parents[order[i]]) ELSE -1]

ParentIds(names, subset) == ParentTable(names, all_bone_parents, subset)

all_bone_parents_id == ParentIds(all_bone_names, all_bone_names)

bone_parents_id == ParentIds(bone_subset, bone_subset)

bone_matrix ==
    [i \in 1..Len(bone_subset) |-> At(all_bone_matrix, IndexOf(all_bone_names, bone_subset[i]))]

GatherIds(names) ==
    [i \in 1..Len(names) |->
        IF Contains(optimizable_bones, names[i])
        THEN IndexOf(optimizable_bones, names[i]) + 1 ELSE 0]

gather_id == GatherIds(bone_subset)

all_gather_id == GatherIds(all_bone_names)

\* direction pairs: keypoint (a, b) against joint (a, b) of bone_subset
kpt_pairs_a == <<1, 2>>
kpt_pairs_b == <<0, 1>>
joint_pairs_a == <<1, 2>>
joint_pairs_b == <<0, 1>>

\* scale pairs: keypoint pair against the rest distance of a bone pair
align_scale_pairs_kpt == << <<0, 1>>, <<1, 2>> >>
align_scale_pairs_bone == << <<0, 2>>, <<2, 3>> >>

\* location alignment sets
align_location_kpts == <<0>>
align_location_bones == <<2>>

smooth_range == 1

-----------------------------------------------------------------------------
(* Kinematic evaluator *)

RECURSIVE EvalLoopSwapped(_, _, _, _, _)
\* the loop composing a bone's local matrix on the left of its parent's world
EvalLoopSwapped(parents, matrix_bones, matrix_basis, i, matrix_world) ==
    IF i >= Len(matrix_bones) THEN matrix_world
    ELSE LET local_mat == mm(At(matrix_bones, i), At(matrix_basis, i))
             m == IF At(parents, i) < 0 THEN local_mat
                  ELSE mm(local_mat, At(matrix_world, At(parents, i)))
         IN  EvalLoopSwapped(parents, matrix_bones, matrix_basis, i + 1,
                             Append(matrix_world, m))

RECURSIVE EvalLoop(_, _, _, _, _)
EvalLoop(parents, matrix_bones, matrix_basis, i, matrix_world) ==
    IF i >= Len(matrix_bones) THEN matrix_world
    ELSE LET local_mat == mm(At(matrix_bones, i), At(matrix_basis, i))
             m == IF At(parents, i) < 0 THEN local_mat
                  ELSE mm(At(matrix_world, At(parents, i)), local_mat)
         IN  EvalLoop(parents, matrix_bones, matrix_basis, i + 1, Append(matrix_world, m))

eval_matrix_world(parents, matrix_bones, matrix_basis) ==
    EvalLoop(parents, matrix_bones, matrix_basis, 0, <<>>)

zeros == [i \in Dim |-> [j \in Dim |-> 0]]

madd(A, B) == [i \in Dim |-> [j \in Dim |-> A[i][j] + B[i][j]]]

\* s with s[i] (0-based) replaced by x
Store(s, i, x) == [s EXCEPT ![i + 1] = x]

RECURSIVE BackwardLoopNoPropagation(_, _, _, _, _, _, _)
\* the loop without the propagation of a bone's gradient to its parent
BackwardLoopNoPropagation(parents, matrix_bones, matrix_basis, matrix_world, i, grad_out, grad_matrix_basis) ==
    IF i < 0 THEN [grad_out |-> grad_out, grad_matrix_basis |-> grad_matrix_basis]
    ELSE LET g == IF At(parents, i) >= 0
                  THEN mm(transpose(At(matrix_bones, i)),
                          mm(transpose(At(matrix_world, At(parents, i))), At(grad_out, i)))
                  ELSE mm(transpose(At(matrix_bones, i)), At(grad_out, i))
         IN  BackwardLoopNoPropagation(parents, matrix_bones, matrix_basis, matrix_world,
                 i - 1, grad_out,
                 Store(grad_matrix_basis, i, madd(At(grad_matrix_basis, i), g)))

\* the bones in increasing index order
BoneOrderAscending(n) == [k \in 1..n |-> k - 1]

\* range(parents.shape[0] - 1, -1, -1): the bones in the order the loop visits them
BoneOrder(n) == [k \in 1..n |-> n - k]

\* one iteration of the loop of EvalMatrixWorld.backward, for bone i; grad_out
\* is the caller's tensor, updated in place
BackwardIter(parents, matrix_bones, matrix_basis, matrix_world, i, grad_out, grad_matrix_basis) ==
    LET local_mat == mm(At(matrix_bones, i), At(matrix_basis, i))
    IN  IF At(parents, i) >= 0
        THEN LET parent_world_mat == At(matrix_world, At(parents, i))
                 g == mm(transpose(At(matrix_bones, i)),
                         mm(transpose(parent_world_mat), At(grad_out, i)))
                 parent_grad == mm(At(grad_out, i), transpose(local_mat))
             IN  [grad_out |-> Store(grad_out, At(parents, i),
                                     madd(At(grad_out, At(parents, i)), parent_grad)),
                  grad_matrix_basis |->
                      Store(grad_matrix_basis, i, madd(At(grad_matrix_basis, i), g))]
        ELSE LET g == mm(transpose(At(matrix_bones, i)), At(grad_out, i))
             IN  [grad_out |-> grad_out,
                  grad_matrix_basis |->
                      Store(grad_matrix_basis, i, madd(At(grad_matrix_basis, i), g))]

RECURSIVE BackwardLoop(_, _, _, _, _, _, _)
\* EvalMatrixWorld.backward, the loop from bone i down to bone 0
BackwardLoop(parents, matrix_bones, matrix_basis, matrix_world, i, grad_out, grad_matrix_basis) ==
    IF i < 0 THEN [grad_out |-> grad_out, grad_matrix_basis |-> grad_matrix_basis]
    ELSE LET r == BackwardIter(parents, matrix_bones, matrix_basis, matrix_world, i,
                               grad_out, grad_matrix_basis)
         IN  BackwardLoop(parents, matrix_bones, matrix_basis, matrix_world, i - 1,
                          r.grad_out, r.grad_matrix_basis)

\* torch.zeros_like(matrix_basis)
zeros_like(matrix_basis) == [i \in 1..Len(matrix_basis) |-> zeros]

\* torch.gather(torch.cat([eye, optim_matrix_basis]), index=ids)
Gather(euler, ids) ==
    LET table == <<eye>> \o [k \in 1..Len(euler) |-> euler_angle_to_matrix(euler[k])]
    IN  [i \in 1..Len(ids) |-> At(table, ids[i])]

\* the basis matrices handed to the forward pass together with the bones whose
\* parent table and rest matrices are handed to it: the pass pairs bone i with
\* basis i.  Lines 166-167 (loss), 181-182 (location), 209-210 (evaluation).
LossBasis(euler) == [bones |-> bone_subset, basis |-> Gather(euler, gather_id)]

LocationBasis(euler) == [bones |-> bone_subset, basis |-> Gather(euler, all_gather_id)]

EvalBasis(euler) == [bones |-> all_bone_names, basis |-> Gather(euler, all_gather_id)]

\* rest world transforms, and the rest length of each scale pair
all_bone_matrix_world_rest ==
    eval_matrix_world(all_bone_parents_id, all_bone_matrix,
                      [i \in 1..Len(all_bone_names) |-> eye])

align_scale_pairs_length ==
    [p \in 1..Len(align_scale_pairs_bone) |->
        Abs(Trans(At(all_bone_matrix_world_rest, align_scale_pairs_bone[p][1]))
            - Trans(At(all_bone_matrix_world_rest, align_scale_pairs_bone[p][2])))]

\* denominators of the fixed-point scale and location
ScaleDen == Len(align_scale_pairs_kpt) * ProdSeq(align_scale_pairs_length)

LocDen == ScaleDen * Len(align_location_kpts) * Len(align_location_bones)

-----------------------------------------------------------------------------
(* Solver state after __init__ *)

Angles == {0, 1}

EulerVectors == [1..Len(optimizable_bones) -> Angles]

max_iter == 24

first_max_iter == 100

NoCall == [op |-> "init", err |-> "none", kpts |-> <<>>, valid |-> <<>>, t |-> 0,
           scale |-> 0, iters |-> 0, val |-> <<>>]

NoFunction == [op |-> "none"]

-----------------------------------------------------------------------------
(* The camera and servo programs before any of their functions is called *)

\* a TrackingSystem that has not been constructed
NoTrackingSystem ==
    [current_pan_pw |-> 0, current_tilt_pw |-> 0, stop_requested |-> FALSE,
     connected |-> FALSE, misused |-> FALSE, sent |-> <<>>]

NoServo == [op |-> "none", ts |-> NoTrackingSystem, frames |-> 0]

\* Flutter.py after import: _tracking_instance and _tracking_thread are None
\* (0), no TrackingSystem and no thread was ever created, no request is served
FlutterLoaded ==
    [instance |-> 0, thread |-> 0, status |-> "Stopped",
     objects |-> <<>>, workers |-> <<>>, handlers |-> <<>>, requests |-> 0, frames |-> 0]

\* LiveCap.py after import
LiveCapLoaded ==
    [is_capturing |-> FALSE, thread |-> 0, instance |-> 0,
     objects |-> <<>>, workers |-> <<>>, callers |-> <<>>, calls |-> 0, frames |-> 0]

\* no CameraController has been created
NoController == [op |-> "none"]

\* no camera process has been started
NoReader == [op |-> "none"]

Init ==
    /\ optim_bone_euler = [k \in 1..Len(optimizable_bones) |-> 0]
    /\ align_scale = 0
    /\ euler_angle_history = <<>>
    /\ location_history = <<>>
    /\ last = NoCall
    /\ calls = <<>>
    /\ fcall = NoFunction
    /\ servo = NoServo
    /\ tracking = FlutterLoaded
    /\ livecap = LiveCapLoaded
    /\ camera = NoController
    /\ reader = NoReader

-----------------------------------------------------------------------------
(* fit *)

\* a pair kept when either of its keypoints is valid
PairValidEither(valid) ==
    [p \in 1..Len(kpt_pairs_a) |-> At(valid, kpt_pairs_a[p]) \/ At(valid, kpt_pairs_b[p])]

\* line 152: valid[kpt_pairs_a] & valid[kpt_pairs_b]
PairValid(valid) ==
    [p \in 1..Len(kpt_pairs_a) |-> At(valid, kpt_pairs_a[p]) /\ At(valid, kpt_pairs_b[p])]

\* line 156: kpts[kpt_pairs_a] - kpts[kpt_pairs_b] over the pairs kept
KptDir(kpts, pa, pb) == [p \in 1..Len(pa) |-> At(kpts, pa[p]) - At(kpts, pb[p])]

\* pair lengths taken as the difference of the two keypoints' norms
ComputedScaleFromOrigin(kpts) ==
    LET kpt_pairs_length ==
            [p \in 1..Len(align_scale_pairs_kpt) |->
                Abs(Abs(At(kpts, align_scale_pairs_kpt[p][1])) - Abs(At(kpts, align_scale_pairs_kpt[p][2])))]
    IN  SumSeq([p \in 1..Len(align_scale_pairs_kpt) |->
                kpt_pairs_length[p]
                * (ProdSeq(align_scale_pairs_length) \div align_scale_pairs_length[p])])

\* lines 157-158: mean of observed pair length / rest pair length, over ScaleDen
ComputedScale(kpts) ==
    LET kpt_pairs_length ==
            [p \in 1..Len(align_scale_pairs_kpt) |->
                Abs(At(kpts, align_scale_pairs_kpt[p][1]) - At(kpts, align_scale_pairs_kpt[p][2]))]
    IN  SumSeq([p \in 1..Len(align_scale_pairs_kpt) |->
                kpt_pairs_length[p]
                * (ProdSeq(align_scale_pairs_length) \div align_scale_pairs_length[p])])

\* a scale of zero accepted as well
ScalePositiveOrZero(s) == s >= 0

\* line 159
ScalePositive(s) == s > 0

\* lines 180-183: the root location, over LocDen
Location(kpts, euler, scale) ==
    LET matrix_basis == LocationBasis(euler).basis
        matrix_world == eval_matrix_world(bone_parents_id, bone_matrix, matrix_basis)
        kpt_sum == SumSeq([k \in 1..Len(align_location_kpts) |-> At(kpts, align_location_kpts[k])])
        bone_sum == SumSeq([b \in 1..Len(align_location_bones) |->
                            scale * Trans(At(matrix_world, align_location_bones[b]))])
    IN  Len(align_location_bones) * ScaleDen * kpt_sum - Len(align_location_kpts) * bone_sum

\* the configured budget on every call
IterCapConfigured == max_iter

\* line 147
IterCap == IF Len(euler_angle_history) = 0 THEN first_max_iter ELSE max_iter

\* the sample appended, then the samples older than the half-width dropped
AppendSamplePruned(history, value, frame_t) ==
    SelectSeq(Append(history, <<value, frame_t>>), LAMBDA e : frame_t - e[2] < smooth_range)

\* the sample written over the newest one when both carry the same timestamp
AppendSampleOverwrite(history, value, frame_t) ==
    IF history # <<>> /\ history[Len(history)][2] = frame_t
    THEN [history EXCEPT ![Len(history)] = <<value, frame_t>>]
    ELSE Append(history, <<value, frame_t>>)

\* the sample inserted at the front
AppendSampleFront(history, value, frame_t) == <<<<value, frame_t>>>> \o history

\* lines 185-186
AppendSample(history, value, frame_t) == Append(history, <<value, frame_t>>)

FitCall(kpts, valid, frame_t, err, scale) ==
    [op |-> "fit", err |-> err, kpts |-> kpts, valid |-> valid, t |-> frame_t,
     scale |-> scale, iters |-> IterCap, val |-> <<>>]

\* fit(kpts, valid, frame_t); `optimum` is what optimizer.step leaves in the angles
Fit(kpts, valid, frame_t, optimum) ==
    LET idxValid == \A p \in 1..Len(kpt_pairs_a) :
                        InRange(valid, kpt_pairs_a[p]) /\ InRange(valid, kpt_pairs_b[p])
    IN
    IF ~idxValid
    THEN \* IndexError at line 152
         /\ last' = FitCall(kpts, valid, frame_t, "IndexError", 0)
         /\ UNCHANGED <<solver, calls>>
    ELSE
    LET pair_valid == PairValid(valid)
        pa == Masked(kpt_pairs_a, pair_valid)
        pb == Masked(kpt_pairs_b, pair_valid)
        idxDir == \A p \in 1..Len(pa) : InRange(kpts, pa[p]) /\ InRange(kpts, pb[p])
        idxScale == \A p \in 1..Len(align_scale_pairs_kpt) :
                        /\ InRange(kpts, align_scale_pairs_kpt[p][1])
                        /\ InRange(kpts, align_scale_pairs_kpt[p][2])
    IN
    IF ~(idxDir /\ idxScale)
    THEN \* IndexError at line 156 or 157
         /\ last' = FitCall(kpts, valid, frame_t, "IndexError", 0)
         /\ UNCHANGED <<solver, calls>>
    ELSE
    LET kpt_dir == KptDir(kpts, pa, pb)
        scale == ComputedScale(kpts)
        new_scale == IF ScalePositive(scale) THEN scale ELSE align_scale
        new_euler == IF Len(kpt_dir) > 0 THEN optimum ELSE optim_bone_euler
        idxLoc == \A k \in 1..Len(align_location_kpts) : InRange(kpts, align_location_kpts[k])
    IN
    /\ Len(kpt_dir) = 0 => optimum = optim_bone_euler
    /\ align_scale' = new_scale
    /\ optim_bone_euler' = new_euler
    /\ IF ~idxLoc
       THEN \* IndexError at line 183, after the scale and the angles were written
            /\ last' = FitCall(kpts, valid, frame_t, "IndexError", scale)
            /\ UNCHANGED <<euler_angle_history, location_history, calls>>
       ELSE /\ euler_angle_history' = AppendSample(euler_angle_history, new_euler, frame_t)
            /\ location_history' =
                   AppendSample(location_history, Location(kpts, new_euler, scale), frame_t)
            /\ last' = FitCall(kpts, valid, frame_t, "none", scale)
            /\ calls' = Append(calls, frame_t)

-----------------------------------------------------------------------------
(* Queries *)

RECURSIVE InWindowPast(_, _)
\* the samples strictly older than query_t, less than smooth_range before it
InWindowPast(history, query_t) ==
    IF history = <<>> THEN <<>>
    ELSE (IF query_t - Head(history)[2] > 0 /\ query_t - Head(history)[2] < smooth_range
          THEN <<Head(history)>> ELSE <<>>)
         \o InWindowPast(Tail(history), query_t)

RECURSIVE InWindow(_, _)
\* lines 189, 200: the samples with abs(t - query_t) < smooth_range, in history order
InWindow(history, query_t) ==
    IF history = <<>> THEN <<>>
    ELSE (IF Abs(Head(history)[2] - query_t) < smooth_range THEN <<Head(history)>> ELSE <<>>)
         \o InWindow(Tail(history), query_t)

\* a single sample only counted as too few
TooFewOne(n) == n <= 1

\* lines 190, 201
TooFew(n) == n <= 2

\* an empty selection answered with a zero sample
SmoothedOrDefault(history, query_t) ==
    LET input == InWindow(history, query_t)
    IN  IF Len(input) = 0
        THEN <<"none", <<"sample", 0>>>>
        ELSE IF TooFew(Len(input))
        THEN <<"none", <<"sample", input[Len(input)][1]>>>>
        ELSE <<"none", <<"mls", [i \in 1..Len(input) |-> input[i][2]],
                                [i \in 1..Len(input) |-> input[i][1]], query_t>>>>

\* lines 189-194, 199-205: the outcome of a smoothing query, <<err, val>>
Smoothed(history, query_t) ==
    LET input == InWindow(history, query_t)
    IN  IF Len(input) = 0
        THEN <<"ValueError", <<>>>>      \* zip(*()) yields nothing to unpack
        ELSE IF TooFew(Len(input))
        THEN <<"none", <<"sample", input[Len(input)][1]>>>>
        ELSE <<"none", <<"mls", [i \in 1..Len(input) |-> input[i][2]],
                                [i \in 1..Len(input) |-> input[i][1]], query_t>>>>

QueryCall(op, query_t, outcome) ==
    [op |-> op, err |-> outcome[1], kpts |-> <<>>, valid |-> <<>>, t |-> query_t,
     scale |-> 0, iters |-> 0, val |-> outcome[2]]

\* the query dropping the samples outside its window
GetSmoothedBoneEulerPruning(query_t) ==
    /\ last' = QueryCall("get_smoothed_bone_euler", query_t, Smoothed(euler_angle_history, query_t))
    /\ euler_angle_history' = InWindow(euler_angle_history, query_t)
    /\ UNCHANGED <<optim_bone_euler, align_scale, location_history, calls>>

GetSmoothedBoneEuler(query_t) ==
    /\ last' = QueryCall("get_smoothed_bone_euler", query_t, Smoothed(euler_angle_history, query_t))
    /\ UNCHANGED <<solver, calls>>

GetSmoothedLocation(query_t) ==
    /\ last' = QueryCall("get_smoothed_location", query_t, Smoothed(location_history, query_t))
    /\ UNCHANGED <<solver, calls>>

GetScale ==
    /\ last' = QueryCall("get_scale", 0, <<"none", <<"scale", align_scale>>>>)
    /\ UNCHANGED <<solver, calls>>

-----------------------------------------------------------------------------------------------------------------------------------------------------
(* eval_bone_matrix_world *)

\* the evaluation taking the angles from the solver instead of its argument
BoneMatrixWorldOfSolver(bone_euler, location, scale) ==
    LET matrix_basis == Gather(optim_bone_euler, all_gather_id)
        matrix_world == eval_matrix_world(all_bone_parents_id, all_bone_matrix, matrix_basis)
    IN  [i \in 1..Len(matrix_world) |->
            [r |-> scale * Rot(matrix_world[i]),
             t |-> scale * Trans(matrix_world[i]) * (LocDen \div ScaleDen) + location]]

\* lines 208-215: per bone <<r, t>>, r over ScaleDen and t over LocDen
BoneMatrixWorld(bone_euler, location, scale) ==
    LET matrix_basis == EvalBasis(bone_euler).basis
        matrix_world == eval_matrix_world(all_bone_parents_id, all_bone_matrix, matrix_basis)
    IN  [i \in 1..Len(matrix_world) |->
            [r |-> scale * Rot(matrix_world[i]),
             t |-> scale * Trans(matrix_world[i]) * (LocDen \div ScaleDen) + location]]

EvalBoneMatrixWorld(bone_euler, location, scale) ==
    /\ last' = [op |-> "eval_bone_matrix_world", err |-> "none", kpts |-> bone_euler,
                valid |-> <<>>, t |-> location, scale |-> scale, iters |-> 0,
                val |-> BoneMatrixWorld(bone_euler, location, scale)]
    /\ UNCHANGED <<solver, calls>>

-----------------------------------------------------------------------------
(* The solver's callers *)

Times == 0..MaxT

\* keypoint frames: all keypoints coincident, the rest pose, the rest pose
\* translated, the rest pose at twice the size
KptFrames == { <<0, 0, 0>>, <<0, 1, 3>>, <<1, 2, 4>>, <<0, 2, 6>> }

ValidMasks == [1..K -> BOOLEAN]

SteadyKpts == <<0, 1, 3>>

\* frames of a fully tracked subject at rest scale
SteadyFrames == { <<0, 1, 3>>, <<1, 2, 4>> }

AllValid == [i \in 1..K |-> TRUE]

\* arrays one element short or one element long
Shorter(a) == SubSeq(a, 1, Len(a) - 1)

Longer(a, x) == Append(a, x)

Resized(a, x) == {Shorter(a), a, Longer(a, x)}

\* the caller has taken the result of its last call
Idle == last.op = "init"

Return ==
    /\ ~Idle
    /\ last' = NoCall
    /\ UNCHANGED <<solver, calls, fcall>>
    /\ UNCHANGED devices

FitFrame ==
    /\ Idle
    /\ UNCHANGED fcall
    /\ Len(calls) < MaxFits
    /\ \E kpts \in KptFrames, valid \in ValidMasks, frame_t \in Times, optimum \in EulerVectors :
          Fit(kpts, valid, frame_t, optimum)
    /\ UNCHANGED devices

FitMalformed ==
    /\ Idle
    /\ UNCHANGED fcall
    /\ Len(calls) < MaxFits
    /\ \E kpts \in Resized(SteadyKpts, 0), mask \in ValidMasks, frame_t \in Times,
          optimum \in EulerVectors :
          \E valid \in Resized(mask, TRUE) :
              /\ Len(kpts) # K \/ Len(valid) # K
              /\ Fit(kpts, valid, frame_t, optimum)
    /\ UNCHANGED devices

FitSteady ==
    /\ Idle
    /\ UNCHANGED fcall
    /\ Len(calls) < MaxSamples
    /\ \E kpts \in SteadyFrames, frame_t \in Times, optimum \in EulerVectors :
          Fit(kpts, AllValid, frame_t, optimum)
    /\ UNCHANGED devices

Query ==
    /\ Idle
    /\ UNCHANGED fcall
    /\ \/ \E query_t \in Times : GetSmoothedBoneEuler(query_t)
       \/ \E query_t \in Times : GetSmoothedLocation(query_t)
       \/ GetScale
       \/ \E bone_euler \in EulerVectors, location \in {0, LocDen} :
              EvalBoneMatrixWorld(bone_euler, location, align_scale)
    /\ UNCHANGED devices

Next == FitFrame \/ FitMalformed \/ Query \/ Return

Spec == Init /\ [][Next]_vars

NextSmooth == FitSteady \/ Query \/ Return

SpecSmooth == Init /\ [][NextSmooth]_vars

-----------------------------------------------------------------------------
(* Callers of the kinematic evaluator: forward on a hierarchy, then backward *)
(* on the tensors the forward pass saved                                     *)

\* parent tables in topological order: -1 or an earlier bone
Hierarchies(n) == {p \in [1..n -> -1..(n - 2)] : \A i \in 1..n : p[i] < i - 1}

\* two rest poses per bone count: turns alternate along the bones, offsets grow
RestPoses(n) ==
    {[i \in 1..n |-> Affine(IF (i + v) % 2 = 0 THEN 1 ELSE -1, i + v)] : v \in 0..1}

BasisMats == {euler_angle_to_matrix(a) : a \in Angles}

WorldGrads == {zeros, <<<<1, 2>>, <<3, 5>>>>}

\* EvalMatrixWorld.forward: the result, and the tensors saved for backward
Forward ==
    /\ fcall = NoFunction
    /\ \E n \in 1..MaxBones :
         \E parents \in Hierarchies(n), matrix_bones \in RestPoses(n),
            matrix_basis \in [1..n -> BasisMats] :
            fcall' = [op |-> "forward", parents |-> parents,
                      matrix_bones |-> matrix_bones, matrix_basis |-> matrix_basis,
                      matrix_world |->
                          eval_matrix_world(parents, matrix_bones, matrix_basis)]
    /\ UNCHANGED <<solver, last, calls>>
    /\ UNCHANGED devices

\* EvalMatrixWorld.backward on the saved tensors; grad_in is the caller's
\* grad_out tensor before the call, grad_out the same tensor after it
Backward ==
    /\ fcall.op = "forward"
    /\ \E grad_out \in [1..Len(fcall.parents) -> WorldGrads] :
         LET r == BackwardLoop(fcall.parents, fcall.matrix_bones, fcall.matrix_basis,
                               fcall.matrix_world, Len(fcall.parents) - 1, grad_out,
                               zeros_like(fcall.matrix_basis))
         IN  fcall' = [op |-> "backward", parents |-> fcall.parents,
                       matrix_bones |-> fcall.matrix_bones,
                       matrix_basis |-> fcall.matrix_basis,
                       matrix_world |-> fcall.matrix_world,
                       grad_in |-> grad_out, grad_out |-> r.grad_out,
                       grad_matrix_basis |-> r.grad_matrix_basis]
    /\ UNCHANGED <<solver, last, calls>>
    /\ UNCHANGED devices

\* EvalMatrixWorld.backward entered: the result is zeroed, no bone visited yet
BackwardBegin ==
    /\ fcall.op = "forward"
    /\ \E grad_out \in [1..Len(fcall.parents) -> WorldGrads] :
         fcall' = [op |-> "backward_loop", parents |-> fcall.parents,
                   matrix_bones |-> fcall.matrix_bones,
                   matrix_basis |-> fcall.matrix_basis,
                   matrix_world |-> fcall.matrix_world,
                   grad_in |-> grad_out, grad_out |-> grad_out,
                   grad_matrix_basis |-> zeros_like(fcall.matrix_basis),
                   visited |-> 0]
    /\ UNCHANGED <<solver, last, calls>>
    /\ UNCHANGED devices

\* one iteration of the loop; after the last one the call returns
BackwardStep ==
    /\ fcall.op = "backward_loop"
    /\ IF fcall.visited < Len(fcall.parents)
       THEN LET i == BoneOrder(Len(fcall.parents))[fcall.visited + 1]
                r == BackwardIter(fcall.parents, fcall.matrix_bones, fcall.matrix_basis,
                                  fcall.matrix_world, i, fcall.grad_out,
                                  fcall.grad_matrix_basis)
            IN  fcall' = [fcall EXCEPT !.grad_out = r.grad_out,
                                       !.grad_matrix_basis = r.grad_matrix_basis,
                                       !.visited = @ + 1]
       ELSE fcall' = [op |-> "backward", parents |-> fcall.parents,
                      matrix_bones |-> fcall.matrix_bones,
                      matrix_basis |-> fcall.matrix_basis,
                      matrix_world |-> fcall.matrix_world,
                      grad_in |-> fcall.grad_in, grad_out |-> fcall.grad_out,
                      grad_matrix_basis |-> fcall.grad_matrix_basis]
    /\ UNCHANGED <<solver, last, calls>>
    /\ UNCHANGED devices

\* Tensor.inverse() of a rigid transform x |-> r*x + t, r = 1 or -1
inverse(m) == Affine(Rot(m), -Rot(m) * Trans(m))

\* values of updated_bones: a rotation block (3x3) or a whole transform (4x4)
BoneUpdates == {[shape |-> "3x3", matrix |-> -1], [shape |-> "4x4", matrix |-> Affine(-1, 5)]}

\* updated_bones: a dictionary from bone index (0-based) to a matrix
UpdatedBones(n) ==
    {[i \in keys |-> val[i + 1]] : keys \in SUBSET (0..(n - 1)), val \in [1..n -> BoneUpdates]}

\* lines 220-226: the entries of updated_bones written into the clone
WithUpdates(bone_matrix_world, updated_bones) ==
    [k \in 1..Len(bone_matrix_world) |->
        IF (k - 1) \in DOMAIN updated_bones
        THEN IF updated_bones[k - 1].shape = "3x3"
             THEN Affine(updated_bones[k - 1].matrix, Trans(bone_matrix_world[k]))
             ELSE updated_bones[k - 1].matrix
        ELSE bone_matrix_world[k]]

RECURSIVE UpdateLoop(_, _, _, _, _)
\* lines 228-230: the loop from bone i on, over the bones whose parent is a key
UpdateLoop(bone_parents, bone_matrix_world, to_update, i, bone_matrix_world_updated) ==
    IF i >= Len(bone_matrix_world) THEN bone_matrix_world_updated
    ELSE UpdateLoop(bone_parents, bone_matrix_world, to_update, i + 1,
            IF At(bone_parents, i) \in to_update
            THEN Store(bone_matrix_world_updated, i,
                       mm(At(bone_matrix_world_updated, At(bone_parents, i)),
                          mm(inverse(At(bone_matrix_world, At(bone_parents, i))),
                             At(bone_matrix_world, i))))
            ELSE bone_matrix_world_updated)

update_eval_matrix(bone_parents, bone_matrix_world, updated_bones) ==
    UpdateLoop(bone_parents, bone_matrix_world, DOMAIN updated_bones, 0,
               WithUpdates(bone_matrix_world, updated_bones))

\* update_eval_matrix called on the world matrices of a forward pass
UpdateEvalMatrix ==
    /\ fcall.op = "forward"
    /\ \E updated_bones \in UpdatedBones(Len(fcall.parents)) :
          fcall' = [op |-> "update_eval_matrix", bone_parents |-> fcall.parents,
                    bone_matrix_world |-> fcall.matrix_world,
                    updated_bones |-> updated_bones,
                    val |-> update_eval_matrix(fcall.parents, fcall.matrix_world,
                                               updated_bones)]
    /\ UNCHANGED <<solver, last, calls>>
    /\ UNCHANGED devices

\* the caller has taken the result and dropped the saved tensors
Release ==
    /\ fcall # NoFunction
    /\ fcall' = NoFunction
    /\ UNCHANGED <<solver, last, calls>>
    /\ UNCHANGED devices

NextKin ==
    Forward \/ Backward \/ BackwardBegin \/ BackwardStep \/ UpdateEvalMatrix \/ Release

SpecKin == Init /\ [][NextKin]_vars

-----------------------------------------------------------------------------
(* fit, step by step: the part before the optimizer, the iterations of       *)
(* optimizer.step, the part after it.  last holds the call in progress,      *)
(* fcall the call of optimizer.step: its iteration cap, the iterations done, *)
(* and how many times step has been called on this solver.                   *)

NoneValid == [i \in 1..K |-> FALSE]

FitRunning(kpts, valid, frame_t, scale) ==
    [op |-> "fit_running", err |-> "none", kpts |-> kpts, valid |-> valid, t |-> frame_t,
     scale |-> scale, iters |-> IterCap, val |-> <<>>]

InFit == last.op = "fit_running"

Stepping == fcall.op = "LBFGS.step" /\ ~fcall.returned

StepsSoFar == IF fcall = NoFunction THEN 0 ELSE fcall.runs

\* the loop of optimizer.step going on whatever the count
MayIterateAlways(n_iter, cap) == TRUE

\* LBFGS(max_iter = cap): another iteration only below the cap
MayIterate(n_iter, cap) == n_iter < cap

\* every sample's value read through the live angle tensor
HistoryAliased(history, euler) == [i \in 1..Len(history) |-> <<euler, history[i][2]>>]

\* the angle history as read after the optimizer has written euler into the
\* live tensor: the samples are detach().clone() copies (line 185)
HistoryAfterUpdate(history, euler) == history

\* lines 143-178: the optimizer is built with the cap, the scale is stored,
\* and optimizer.step is entered when a direction pair is left
FitEnter ==
    /\ Idle
    /\ Len(calls) < MaxFits
    /\ \E valid \in {AllValid, NoneValid}, frame_t \in Times :
          LET kpts == SteadyKpts
              pair_valid == PairValid(valid)
              kpt_dir == KptDir(kpts, Masked(kpt_pairs_a, pair_valid),
                                Masked(kpt_pairs_b, pair_valid))
              scale == ComputedScale(kpts)
          IN  /\ align_scale' = IF ScalePositive(scale) THEN scale ELSE align_scale
              /\ last' = FitRunning(kpts, valid, frame_t, scale)
              /\ IF Len(kpt_dir) > 0
                 THEN fcall' = [op |-> "LBFGS.step", max_iter |-> IterCap, n_iter |-> 0,
                                runs |-> StepsSoFar + 1, returned |-> FALSE]
                 ELSE UNCHANGED fcall
    /\ UNCHANGED <<optim_bone_euler, euler_angle_history, location_history, calls>>
    /\ UNCHANGED devices

\* one iteration of optimizer.step: the angles are rewritten in place
OptimizerIterate ==
    /\ InFit /\ Stepping
    /\ MayIterate(fcall.n_iter, fcall.max_iter)
    /\ fcall' = [fcall EXCEPT !.n_iter = @ + 1]
    /\ \E euler \in EulerVectors :
          /\ optim_bone_euler' = euler
          /\ euler_angle_history' = HistoryAfterUpdate(euler_angle_history, euler)
    /\ UNCHANGED <<align_scale, location_history, last, calls>>
    /\ UNCHANGED devices

\* optimizer.step returns: the cap is reached, or a tolerance is met earlier
OptimizerReturn ==
    /\ InFit /\ Stepping
    /\ fcall' = [fcall EXCEPT !.returned = TRUE]
    /\ UNCHANGED <<solver, last, calls>>
    /\ UNCHANGED devices

\* lines 180-186: the location, the two samples, and fit returns
FitLeave ==
    /\ InFit /\ ~Stepping
    /\ euler_angle_history' = AppendSample(euler_angle_history, optim_bone_euler, last.t)
    /\ location_history' =
           AppendSample(location_history,
                        Location(last.kpts, optim_bone_euler, last.scale), last.t)
    /\ last' = FitCall(last.kpts, last.valid, last.t, "none", last.scale)
    /\ calls' = Append(calls, last.t)
    /\ UNCHANGED <<optim_bone_euler, align_scale, fcall>>
    /\ UNCHANGED devices

\* the caller takes over again once fit has returned
FitTaken == ~InFit /\ Return

NextFit == FitEnter \/ OptimizerIterate \/ OptimizerReturn \/ FitLeave \/ FitTaken

SpecFit == Init /\ [][NextFit]_vars

\* fit is a blocking call on one thread: once entered it keeps running
SpecFitFair == SpecFit /\ WF_vars(OptimizerIterate \/ OptimizerReturn \/ FitLeave)

-----------------------------------------------------------------------------
(* Two consumers of eval_bone_matrix_world: the processing loop, whose call  *)
(* is in last, and a second consumer whose call is in fcall and may overlap  *)
(* the loop's fits and evaluations                                           *)

EvalArgs == EulerVectors \X {0, LocDen} \X {ScaleDen, 2 * ScaleDen}

Evaluate ==
    /\ Idle
    /\ UNCHANGED fcall
    /\ \E args \in EvalArgs : EvalBoneMatrixWorld(args[1], args[2], args[3])
    /\ UNCHANGED devices

\* the second consumer enters eval_bone_matrix_world; begun counts the fits
\* that had returned by then
ConsumerCall ==
    /\ fcall = NoFunction
    /\ \E args \in EvalArgs :
          fcall' = [op |-> "evaluating", bone_euler |-> args[1], location |-> args[2],
                    scale |-> args[3], begun |-> Len(calls), val |-> <<>>]
    /\ UNCHANGED <<solver, last, calls>>
    /\ UNCHANGED devices

\* the second consumer's call returns
ConsumerReturn ==
    /\ fcall.op = "evaluating"
    /\ fcall' = [fcall EXCEPT !.op = "evaluated",
                               !.val = BoneMatrixWorld(fcall.bone_euler, fcall.location,
                                                       fcall.scale)]
    /\ UNCHANGED <<solver, last, calls>>
    /\ UNCHANGED devices

\* the second consumer has used its result
ConsumerDone ==
    /\ fcall.op = "evaluated"
    /\ fcall' = NoFunction
    /\ UNCHANGED <<solver, last, calls>>
    /\ UNCHANGED devices

FitTracked ==
    /\ Idle
    /\ UNCHANGED fcall
    /\ Len(calls) < MaxFits
    /\ \E frame_t \in Times, optimum \in EulerVectors :
          Fit(SteadyKpts, AllValid, frame_t, optimum)
    /\ UNCHANGED devices

NextEval == FitTracked \/ Evaluate \/ Return \/ ConsumerCall \/ ConsumerReturn \/ ConsumerDone

SpecEval == Init /\ [][NextEval]_vars

-----------------------------------------------------------------------------
(* Construction of a solver from skeleton export data.  The loader and the   *)
(* choice of the optimization subset follow the specification of the         *)
(* Skeleton Model; the tables are built as SkeletonIKSolver.__init__ builds  *)
(* them.                                                                     *)

NamePool == <<"hips", "tail", "leg", "foot", "toe">>

Dangling == "ghost"

\* the first n elements of s, all of s when it is shorter
Prefix(s, n) == SubSeq(s, 1, IF n < Len(s) THEN n ELSE Len(s))

Range(f) == {f[x] : x \in DOMAIN f}

\* export data of n bones listed in hierarchy order; a parent may be missing
\* from the bone list, and the parent or the rest-matrix array may be one short
Exports(n) ==
    LET names == Prefix(NamePool, n)
        parentNames == {p \in [1..n -> {None, Dangling} \cup Range(names)] :
                          \A i \in 1..n : p[i] \in {None, Dangling}
                                                   \cup {names[j] : j \in 1..(i - 1)}}
    IN  {[bone_names |-> names,
          bone_parents |-> Prefix(p, n - short[1]),
          bone_matrix |-> [i \in 1..(n - short[2]) |-> Affine(1, i)],
          remap |-> r] :
            p \in parentNames, short \in {<<0, 0>>, <<1, 0>>, <<0, 1>>},
            r \in [{"hip", "knee"} -> Range(names)]}

\* only the parent references are examined
ConsistentParents(export) ==
    \A i \in 1..Len(export.bone_parents) :
        export.bone_parents[i] = None \/ Contains(export.bone_names, export.bone_parents[i])

\* no dangling parent reference, no mismatched array lengths
Consistent(export) ==
    /\ Len(export.bone_parents) = Len(export.bone_names)
    /\ Len(export.bone_matrix) = Len(export.bone_names)
    /\ \A i \in 1..Len(export.bone_parents) :
          export.bone_parents[i] = None \/ Contains(export.bone_names, export.bone_parents[i])

\* load(modelPath): LoadError on inconsistent data, else the bone list with the
\* parent names keyed by bone name, in the order of the bone list
load_skeleton_data(export) ==
    IF ~Consistent(export) THEN [err |-> "LoadError"]
    ELSE [err |-> "none",
          all_bone_names |-> export.bone_names,
          all_bone_parents |->
              [b \in {export.bone_names[i] : i \in 1..Len(export.bone_parents)} |->
                  export.bone_parents[IndexOf(export.bone_names, b) + 1]],
          all_bone_matrix |-> export.bone_matrix,
          skeleton_remap |-> export.remap]

RECURSIVE IsAncestor(_, _, _, _)
\* a is b or is reached from b in at most depth parent steps
IsAncestor(bone_parents, a, b, depth) ==
    \/ a = b
    \/ /\ depth > 0
       /\ b \in DOMAIN bone_parents
       /\ bone_parents[b] # None
       /\ IsAncestor(bone_parents, a, bone_parents[b], depth - 1)

\* the optimization subset: the remapped bones and their ancestors, in the
\* order of the bone list
get_optimization_target(names, bone_parents, remap) ==
    Masked(names, [i \in 1..Len(names) |->
        \E k \in DOMAIN remap : IsAncestor(bone_parents, names[i], remap[k], Len(names))])

\* the keys of the parent dictionary, in insertion order
Keys(names, bone_parents) ==
    Masked(names, [i \in 1..Len(names) |-> names[i] \in DOMAIN bone_parents])

NoSolver == [all_bone_names |-> <<>>, all_bone_parents_id |-> <<>>, bone_subset |-> <<>>,
             bone_parents_id |-> <<>>, bone_matrix |-> <<>>]

\* SkeletonIKSolver.__init__ up to the subset's rest matrices
NewSolver(export) ==
    LET data == load_skeleton_data(export)
        names == data.all_bone_names
        parents == data.all_bone_parents
        keys == Keys(names, parents)
        subset == get_optimization_target(names, parents, data.skeleton_remap)
        Failed(e) == [op |-> "construct", export |-> export, err |-> e, self |-> NoSolver]
    IN  IF data.err # "none" THEN Failed(data.err)
        ELSE IF \E i \in 1..Len(keys) :
                   parents[keys[i]] # None /\ ~Contains(names, parents[keys[i]])
        THEN Failed("ValueError")
        ELSE IF \E i \in 1..Len(subset) : subset[i] \notin DOMAIN parents
        THEN Failed("KeyError")
        ELSE IF \E i \in 1..Len(subset) :
                   parents[subset[i]] # None /\ ~Contains(subset, parents[subset[i]])
        THEN Failed("ValueError")
        ELSE IF \E i \in 1..Len(subset) :
                   ~InRange(data.all_bone_matrix, IndexOf(names, subset[i]))
        THEN Failed("IndexError")
        ELSE [op |-> "construct", export |-> export, err |-> "none",
              self |-> [all_bone_names |-> names,
                        all_bone_parents_id |-> ParentTable(names, parents, keys),
                        bone_subset |-> subset,
                        bone_parents_id |-> ParentTable(subset, parents, subset),
                        bone_matrix |->
                            [i \in 1..Len(subset) |->
                                At(data.all_bone_matrix, IndexOf(names, subset[i]))]]]

Construct ==
    /\ fcall = NoFunction
    /\ \E n \in 1..MaxBones : \E export \in Exports(n) : fcall' = NewSolver(export)
    /\ UNCHANGED <<solver, last, calls>>
    /\ UNCHANGED devices

NextLoad == Construct \/ Release

SpecLoad == Init /\ [][NextLoad]_vars

-----------------------------------------------------------------------------
(* TrackingSystem (Backend/Tracking.py): the pan and tilt servos.  A pulse   *)
(* width is a fixed-point numerator over PwDen, which keeps the smoothing     *)
(* step new = current + 0.3 * (target - current) exact for MaxFrames frames.  *)

MaxFrames == 2    \* frames handed to track_person per behaviour

SERVO_MIN_PW == 500
SERVO_MAX_PW == 2500
SERVO_MID_PW == 1500
FRAME_WIDTH == 640
FRAME_HEIGHT == 480

\* SMOOTHING_FACTOR = 0.3
SmoothingNum == 3
SmoothingDen == 10

PwDen == SmoothingDen ^ MaxFrames

Pw(microseconds) == microseconds * PwDen

Min(a, b) == IF a < b THEN a ELSE b

Max(a, b) == IF a > b THEN a ELSE b

\* the smoothing step without the clamp
move_servo_freely(current_pw, target_pw) == current_pw + (SmoothingNum * (target_pw - current_pw)) \div SmoothingDen

\* the pulse width move_servo_smoothly commands and returns
move_servo_smoothly(current_pw, target_pw) == Max(Pw(SERVO_MIN_PW), Min(Pw(SERVO_MAX_PW), current_pw + (SmoothingNum * (target_pw - current_pw)) \div SmoothingDen))

\* calls of pi.set_servo_pulsewidth with the given pulse widths, in order; a
\* call on a connection that pi.stop() has closed raises in pigpio
Commanded(ts, pulse_widths) ==
    [ts EXCEPT !.sent = pulse_widths,
               !.misused = @ \/ (pulse_widths # <<>> /\ ~ts.connected)]

\* TrackingSystem(): both servos are sent to the middle
TrackingSystem ==
    [current_pan_pw |-> Pw(SERVO_MID_PW), current_tilt_pw |-> Pw(SERVO_MID_PW),
     stop_requested |-> FALSE, connected |-> TRUE, misused |-> FALSE,
     sent |-> <<Pw(SERVO_MID_PW), Pw(SERVO_MID_PW)>>]

\* what the pose and hand detectors report for a frame: nothing, or the pixel
\* of the nose (of the hand's centre), which may lie outside the frame
NoTarget == [found |-> FALSE, x |-> 0, y |-> 0]

Pixel(x, y) == [found |-> TRUE, x |-> x, y |-> y]

Targets ==
    {NoTarget, Pixel(320, 240), Pixel(0, 0), Pixel(639, 479),
     Pixel(-200, 900), Pixel(-2000, -1500)}

\* track_person(frame): the first command on a closed connection raises and
\* leaves the tracked pulse widths as they were
track_person(ts, target) ==
    IF ~target.found THEN Commanded(ts, <<>>)
    ELSE LET x_error == target.x - FRAME_WIDTH \div 2
             y_error == target.y - FRAME_HEIGHT \div 2
             target_pan_pw == Pw(SERVO_MID_PW - x_error * 5)
             target_tilt_pw == Pw(SERVO_MID_PW + y_error * 5)
             pan == move_servo_smoothly(ts.current_pan_pw, target_pan_pw)
             tilt == move_servo_smoothly(ts.current_tilt_pw, target_tilt_pw)
         IN  IF ~ts.connected THEN Commanded(ts, <<pan>>)
             ELSE [Commanded(ts, <<pan, tilt>>) EXCEPT !.current_pan_pw = pan,
                                                       !.current_tilt_pw = tilt]

\* TrackingSystem.center_servos()
center_servos(ts) ==
    IF ~ts.connected THEN Commanded(ts, <<Pw(SERVO_MID_PW)>>)
    ELSE [Commanded(ts, <<Pw(SERVO_MID_PW), Pw(SERVO_MID_PW)>>)
             EXCEPT !.current_pan_pw = Pw(SERVO_MID_PW),
                    !.current_tilt_pw = Pw(SERVO_MID_PW)]

\* TrackingSystem.cleanup(): both servos are switched off (pulse width 0) and
\* the connection is closed
cleanup(ts) ==
    IF ~ts.connected THEN Commanded(ts, <<0>>)
    ELSE [Commanded(ts, <<0, 0>>) EXCEPT !.connected = FALSE]

\* a value a caller may leave out (None) is a sequence of length 0 or 1
NoValue == <<>>

\* the pulse width set_servo_position stores and commands for a request
ManualPw(request) == Min(Max(Pw(request), Pw(SERVO_MIN_PW)), Pw(SERVO_MAX_PW))

\* Flutter.set_servo_position(pan, tilt) on the TrackingSystem it finds: the
\* field is assigned before the command is sent
set_servo_position(ts, pan, tilt) ==
    LET pans == IF pan = NoValue THEN <<>> ELSE <<ManualPw(pan[1])>>
        tilts == IF tilt = NoValue THEN <<>> ELSE <<ManualPw(tilt[1])>>
        panned == IF pan = NoValue THEN ts
                  ELSE [ts EXCEPT !.current_pan_pw = pans[1]]
    IN  IF pan # NoValue /\ ~ts.connected THEN Commanded(panned, pans)
        ELSE IF tilt = NoValue THEN Commanded(panned, pans)
        ELSE [Commanded(panned, pans \o tilts) EXCEPT !.current_tilt_pw = tilts[1]]

\* the values a request may carry
Requested == {NoValue, <<0>>, <<499>>, <<1500>>, <<2501>>, <<100000>>}

(* One TrackingSystem driven through its methods, as Tracking.main and the   *)
(* functions of Flutter.py drive it                                          *)

ServoConstruct ==
    /\ servo.op \in {"none", "cleanup"}
    /\ servo' = [servo EXCEPT !.op = "__init__", !.ts = TrackingSystem]
    /\ UNCHANGED <<core, tracking, livecap, camera, reader>>

ServoTrack ==
    /\ servo.ts.connected
    /\ servo.frames < MaxFrames
    /\ \E target \in Targets :
          servo' = [op |-> "track_person", ts |-> track_person(servo.ts, target),
                    frames |-> servo.frames + 1]
    /\ UNCHANGED <<core, tracking, livecap, camera, reader>>

ServoSet ==
    /\ servo.ts.connected
    /\ \E pan \in Requested, tilt \in Requested :
          servo' = [servo EXCEPT !.op = "set_servo_position",
                                 !.ts = set_servo_position(servo.ts, pan, tilt)]
    /\ UNCHANGED <<core, tracking, livecap, camera, reader>>

ServoCenter ==
    /\ servo.ts.connected
    /\ servo' = [servo EXCEPT !.op = "center_servos", !.ts = center_servos(servo.ts)]
    /\ UNCHANGED <<core, tracking, livecap, camera, reader>>

ServoCleanup ==
    /\ servo.ts.connected
    /\ servo' = [servo EXCEPT !.op = "cleanup", !.ts = cleanup(servo.ts)]
    /\ UNCHANGED <<core, tracking, livecap, camera, reader>>

NextServo == ServoConstruct \/ ServoTrack \/ ServoSet \/ ServoCenter \/ ServoCleanup

SpecServo == Init /\ [][NextServo]_vars

-----------------------------------------------------------------------------
(* lib/Backend/Flutter.py: the tracking functions, called by the request      *)
(* handlers of a threaded Flask server, and the _tracking_worker threads      *)
(* they start.  tracking.objects are the TrackingSystems created so far and   *)
(* tracking.workers the threads created so far; the globals                   *)
(* _tracking_instance and _tracking_thread hold an index into them, or 0 for  *)
(* None.  A worker names its TrackingSystem through the global every time.    *)

MaxRequests == 3    \* requests served per behaviour

Put(s, i, x) == [s EXCEPT ![i] = x]

Remove(s, i) == SubSeq(s, 1, i - 1) \o SubSeq(s, i + 1, Len(s))

\* threading.Thread.is_alive(): started and not yet finished
is_alive(thread) == thread.pc \notin {"new", "done"}

AliveWorkers(t) == {w \in 1..Len(t.workers) : is_alive(t.workers[w])}

\* the functions a request may call, each at its first statement
Entry ==
    [start_tracking |-> "check", stop_tracking |-> "stop",
     set_servo_position |-> "set", center_servos |-> "center",
     cleanup_resources |-> "stop"]

\* a request arrives; the server gives it a thread of its own
Request ==
    /\ tracking.requests < MaxRequests
    /\ \E op \in DOMAIN Entry :
          tracking' = [tracking EXCEPT
              !.handlers = Append(@, [op |-> op, pc |-> Entry[op]]),
              !.requests = @ + 1]
    /\ UNCHANGED <<core, servo, livecap, camera, reader>>

Returned(t, h) == [t EXCEPT !.handlers = Remove(@, h)]

At_(t, h, pc) == [t EXCEPT !.handlers[h].pc = pc]

\* start_tracking, line 83: don't start if already tracking
StartCheck(h) ==
    /\ tracking.handlers[h].op = "start_tracking"
    /\ tracking.handlers[h].pc = "check"
    /\ tracking' =
          IF tracking.thread # 0 /\ is_alive(tracking.workers[tracking.thread])
          THEN Returned([tracking EXCEPT !.status = "Already running"], h)
          ELSE At_(tracking, h, "create")
    /\ UNCHANGED <<core, servo, livecap, camera, reader>>

\* start_tracking, lines 87-94: _tracking_instance = TrackingSystem()
StartCreate(h) ==
    /\ tracking.handlers[h].pc = "create"
    /\ tracking' = At_([tracking EXCEPT !.status = "Starting",
                                        !.objects = Append(@, TrackingSystem),
                                        !.instance = Len(tracking.objects) + 1],
                       h, "thread")
    /\ UNCHANGED <<core, servo, livecap, camera, reader>>

\* start_tracking, lines 97-98: _tracking_thread = threading.Thread(...)
StartThread(h) ==
    /\ tracking.handlers[h].pc = "thread"
    /\ tracking' = At_([tracking EXCEPT !.workers = Append(@, [pc |-> "new"]),
                                        !.thread = Len(tracking.workers) + 1],
                       h, "start")
    /\ UNCHANGED <<core, servo, livecap, camera, reader>>

\* start_tracking, lines 99-101: _tracking_thread.start(), which raises on a
\* thread that was started before
StartStart(h) ==
    /\ tracking.handlers[h].pc = "start"
    /\ tracking' =
          IF tracking.workers[tracking.thread].pc = "new"
          THEN Returned([tracking EXCEPT !.workers[tracking.thread].pc = "center"], h)
          ELSE Returned(tracking, h)
    /\ UNCHANGED <<core, servo, livecap, camera, reader>>

\* stop_tracking, lines 207-212, also as called by cleanup_resources
StopRequest(h) ==
    /\ tracking.handlers[h].pc = "stop"
    /\ LET stopping == IF tracking.instance = 0 THEN tracking
                       ELSE [tracking EXCEPT
                                !.objects[tracking.instance].stop_requested = TRUE,
                                !.status = "Stopping"]
           joins == /\ tracking.instance # 0
                    /\ tracking.thread # 0
                    /\ is_alive(tracking.workers[tracking.thread])
       IN  tracking' =
              IF joins THEN At_(stopping, h, "join")
              ELSE IF tracking.handlers[h].op = "cleanup_resources"
              THEN At_(stopping, h, "cleanup")
              ELSE Returned(stopping, h)
    /\ UNCHANGED <<core, servo, livecap, camera, reader>>

\* stop_tracking, line 213: join(timeout=5.0) returns when the worker has
\* finished, or after five seconds whatever the worker does
StopJoin(h) ==
    /\ tracking.handlers[h].pc = "join"
    /\ tracking' = IF tracking.handlers[h].op = "cleanup_resources"
                   THEN At_(tracking, h, "cleanup") ELSE Returned(tracking, h)
    /\ UNCHANGED <<core, servo, livecap, camera, reader>>

\* cleanup_resources, lines 346-352: LiveCap.stop_simple_overlay(), which
\* returns at once when no overlay is capturing, then the cleanup of the
\* TrackingSystem the global holds
CleanupResources(h) ==
    /\ tracking.handlers[h].pc = "cleanup"
    /\ ~livecap.is_capturing
    /\ tracking' =
          IF tracking.instance = 0 THEN Returned(tracking, h)
          ELSE Returned([tracking EXCEPT
                   !.objects[tracking.instance] = cleanup(@),
                   !.instance = 0], h)
    /\ UNCHANGED <<core, servo, livecap, camera, reader>>

\* the TrackingSystem set_servo_position and center_servos work on: the one
\* the global holds, or a new one
Ensured(t) ==
    IF t.instance # 0 THEN t
    ELSE [t EXCEPT !.objects = Append(@, TrackingSystem), !.instance = Len(t.objects) + 1]

ManualRequests == {<<(<<2501>>), NoValue>>, <<NoValue, (<<499>>)>>}

\* set_servo_position, lines 292-308
SetServoPosition(h) ==
    /\ tracking.handlers[h].pc = "set"
    /\ \E request \in ManualRequests :
          LET t == Ensured(tracking)
          IN  tracking' = Returned([t EXCEPT !.objects[t.instance] =
                                       set_servo_position(@, request[1], request[2])], h)
    /\ UNCHANGED <<core, servo, livecap, camera, reader>>

\* center_servos, lines 322-330
CenterServos(h) ==
    /\ tracking.handlers[h].pc = "center"
    /\ LET t == Ensured(tracking)
       IN  tracking' = Returned([t EXCEPT !.objects[t.instance] = center_servos(@)], h)
    /\ UNCHANGED <<core, servo, livecap, camera, reader>>

\* the worker has lost its TrackingSystem: the global is None, or the
\* connection it is about to use is closed, and the statement raises
Raises(t) == t.instance = 0 \/ ~t.objects[t.instance].connected

\* what the detectors report to a worker
Seen == {NoTarget, Pixel(0, 0)}

\* _tracking_worker, line 112: center_servos() before the try block; an
\* exception here ends the thread without cleanup
WorkerCenter(w) ==
    /\ tracking.workers[w].pc = "center"
    /\ tracking' =
          IF tracking.instance = 0 THEN [tracking EXCEPT !.workers[w].pc = "done"]
          ELSE [tracking EXCEPT
                   !.objects[tracking.instance] = center_servos(@),
                   !.workers[w].pc = IF Raises(tracking) THEN "done" ELSE "open"]
    /\ UNCHANGED <<core, servo, livecap, camera, reader>>

\* _tracking_worker, lines 116-134: the camera opens or it does not
WorkerOpen(w) ==
    /\ tracking.workers[w].pc = "open"
    /\ \E opened \in BOOLEAN :
          tracking' =
             IF opened
             THEN [tracking EXCEPT !.status = "Running", !.workers[w].pc = "loop"]
             ELSE [tracking EXCEPT !.status = "Failed to connect camera",
                                   !.workers[w].pc = "cleanup"]
    /\ UNCHANGED <<core, servo, livecap, camera, reader>>

\* _tracking_worker, lines 136-192: one turn of the loop, or the way out of it
WorkerLoop(w) ==
    /\ tracking.workers[w].pc = "loop"
    /\ \/ /\ tracking.instance = 0
          /\ tracking' = [tracking EXCEPT !.status = "Error", !.workers[w].pc = "cleanup"]
       \/ /\ tracking.instance # 0
          /\ tracking.objects[tracking.instance].stop_requested
          /\ tracking' = [tracking EXCEPT !.status = "Stopped", !.workers[w].pc = "cleanup"]
       \/ /\ tracking.instance # 0
          /\ ~tracking.objects[tracking.instance].stop_requested
          /\ tracking' = [tracking EXCEPT !.status = "Stopped", !.workers[w].pc = "cleanup"]
       \/ /\ tracking.instance # 0
          /\ ~tracking.objects[tracking.instance].stop_requested
          /\ tracking.frames < MaxFrames
          /\ \E target \in Seen :
                tracking' = [tracking EXCEPT
                    !.objects[tracking.instance] = track_person(@, target),
                    !.frames = @ + 1,
                    !.status = IF target.found /\ Raises(tracking) THEN "Error" ELSE @,
                    !.workers[w].pc = IF target.found /\ Raises(tracking)
                                      THEN "cleanup" ELSE "loop"]
    /\ UNCHANGED <<core, servo, livecap, camera, reader>>

\* _tracking_worker, line 194: finally, _tracking_instance.cleanup()
WorkerCleanup(w) ==
    /\ tracking.workers[w].pc = "cleanup"
    /\ tracking' =
          IF tracking.instance = 0 THEN [tracking EXCEPT !.workers[w].pc = "done"]
          ELSE [tracking EXCEPT !.objects[tracking.instance] = cleanup(@),
                                !.workers[w].pc = "done"]
    /\ UNCHANGED <<core, servo, livecap, camera, reader>>

NextTracking ==
    \/ Request
    \/ \E h \in 1..Len(tracking.handlers) : StartCheck(h)
    \/ \E h \in 1..Len(tracking.handlers) : StartCreate(h)
    \/ \E h \in 1..Len(tracking.handlers) : StartThread(h)
    \/ \E h \in 1..Len(tracking.handlers) : StartStart(h)
    \/ \E h \in 1..Len(tracking.handlers) : StopRequest(h)
    \/ \E h \in 1..Len(tracking.handlers) : StopJoin(h)
    \/ \E h \in 1..Len(tracking.handlers) : CleanupResources(h)
    \/ \E h \in 1..Len(tracking.handlers) : SetServoPosition(h)
    \/ \E h \in 1..Len(tracking.handlers) : CenterServos(h)
    \/ \E w \in 1..Len(tracking.workers) : WorkerCenter(w)
    \/ \E w \in 1..Len(tracking.workers) : WorkerOpen(w)
    \/ \E w \in 1..Len(tracking.workers) : WorkerLoop(w)
    \/ \E w \in 1..Len(tracking.workers) : WorkerCleanup(w)

SpecTracking == Init /\ [][NextTracking]_vars

-----------------------------------------------------------------------------
(* Backend/LiveCap.py: the overlay and visualisation functions, called from   *)
(* request handler threads, and the capture_worker threads they start.        *)
(* livecap.objects are the TrackingSystems created so far, livecap.workers    *)
(* the threads created so far; the globals _tracking_instance and             *)
(* _capture_thread hold an index into them, or 0 for None.                    *)

MaxCalls == 3    \* calls of the LiveCap functions per behaviour

\* the functions of LiveCap.py, each at its first statement
LiveCapEntry ==
    [start_simple_overlay |-> "check", start_livecap |-> "check",
     stop_simple_overlay |-> "stop", stop_livecap |-> "stop"]

LiveCapCall ==
    /\ livecap.calls < MaxCalls
    /\ \E op \in DOMAIN LiveCapEntry :
          livecap' = [livecap EXCEPT
              !.callers = Append(@, [op |-> op, pc |-> LiveCapEntry[op]]),
              !.calls = @ + 1]
    /\ UNCHANGED <<core, servo, tracking, camera, reader>>

Returned_(l, c) == [l EXCEPT !.callers = Remove(@, c)]

\* start_simple_overlay, lines 362-363, and start_livecap, lines 437-441: the
\* test of is_capturing; start_livecap then fetches a script from the network
OverlayCheck(c) ==
    /\ livecap.callers[c].pc = "check"
    /\ livecap' = IF livecap.is_capturing THEN Returned_(livecap, c)
                  ELSE [livecap EXCEPT !.callers[c].pc = "flag"]
    /\ UNCHANGED <<core, servo, tracking, camera, reader>>

\* lines 366-368 (444-447): is_capturing = True and the new thread
OverlayFlag(c) ==
    /\ livecap.callers[c].pc = "flag"
    /\ livecap' = [livecap EXCEPT !.is_capturing = TRUE,
                                  !.workers = Append(@, [pc |-> "new"]),
                                  !.thread = Len(livecap.workers) + 1,
                                  !.callers[c].pc = "start"]
    /\ UNCHANGED <<core, servo, tracking, camera, reader>>

\* line 369 (448): _capture_thread.start(), which raises on a started thread
OverlayStart(c) ==
    /\ livecap.callers[c].pc = "start"
    /\ livecap' =
          IF livecap.workers[livecap.thread].pc = "new"
          THEN Returned_([livecap EXCEPT !.workers[livecap.thread].pc = "init"], c)
          ELSE Returned_(livecap, c)
    /\ UNCHANGED <<core, servo, tracking, camera, reader>>

\* stop_simple_overlay, lines 385-390, and stop_livecap, lines 484-486:
\* stop_livecap does not test is_capturing
OverlayStop(c) ==
    /\ livecap.callers[c].pc = "stop"
    /\ livecap' =
          IF livecap.callers[c].op = "stop_simple_overlay" /\ ~livecap.is_capturing
          THEN Returned_(livecap, c)
          ELSE [livecap EXCEPT !.is_capturing = FALSE,
                               !.callers[c].pc = IF livecap.thread # 0 THEN "join"
                                                 ELSE "cleanup"]
    /\ UNCHANGED <<core, servo, tracking, camera, reader>>

\* line 391 (487): join(timeout=2.0) returns when the worker has finished,
\* or after two seconds whatever the worker does
OverlayJoin(c) ==
    /\ livecap.callers[c].pc = "join"
    /\ livecap' = [livecap EXCEPT !.callers[c].pc = "cleanup"]
    /\ UNCHANGED <<core, servo, tracking, camera, reader>>

\* lines 393-398 (489-493): cleanup of the TrackingSystem the global holds
OverlayCleanup(c) ==
    /\ livecap.callers[c].pc = "cleanup"
    /\ livecap' =
          IF livecap.instance = 0 THEN Returned_(livecap, c)
          ELSE Returned_([livecap EXCEPT !.objects[livecap.instance] = cleanup(@),
                                         !.instance = 0], c)
    /\ UNCHANGED <<core, servo, tracking, camera, reader>>

\* capture_worker, line 265: _tracking_instance = TrackingSystem()
CaptureInit(w) ==
    /\ livecap.workers[w].pc = "init"
    /\ livecap' = [livecap EXCEPT !.objects = Append(@, TrackingSystem),
                                  !.instance = Len(livecap.objects) + 1,
                                  !.workers[w].pc = "open"]
    /\ UNCHANGED <<core, servo, tracking, camera, reader>>

\* capture_worker, lines 269-276: the camera opens or it does not
CaptureOpen(w) ==
    /\ livecap.workers[w].pc = "open"
    /\ \E opened \in BOOLEAN :
          livecap' = IF opened THEN [livecap EXCEPT !.workers[w].pc = "loop"]
                     ELSE [livecap EXCEPT !.is_capturing = FALSE,
                                          !.workers[w].pc = "cleanup"]
    /\ UNCHANGED <<core, servo, tracking, camera, reader>>

\* capture_worker, lines 278-288: the loop test, the frame, track_person,
\* which raises on None and on a closed connection
CaptureLoop(w) ==
    /\ livecap.workers[w].pc = "loop"
    /\ \/ /\ ~livecap.is_capturing
          /\ livecap' = [livecap EXCEPT !.workers[w].pc = "cleanup"]
       \/ /\ livecap.is_capturing
          /\ livecap' = [livecap EXCEPT !.workers[w].pc = "cleanup"]
       \/ /\ livecap.is_capturing
          /\ livecap.instance = 0
          /\ livecap' = [livecap EXCEPT !.workers[w].pc = "cleanup"]
       \/ /\ livecap.is_capturing
          /\ livecap.instance # 0
          /\ livecap.frames < MaxFrames
          /\ \E target \in Seen :
                livecap' = [livecap EXCEPT
                    !.objects[livecap.instance] = track_person(@, target),
                    !.frames = @ + 1,
                    !.workers[w].pc =
                        IF target.found /\ ~livecap.objects[livecap.instance].connected
                        THEN "cleanup" ELSE "frame"]
    /\ UNCHANGED <<core, servo, tracking, camera, reader>>

\* capture_worker, lines 290-343: the overlays, then the read of
\* _tracking_instance.pose_kpts2d, an attribute no TrackingSystem has: the
\* worker leaves the loop through its exception handler
CaptureFrame(w) ==
    /\ livecap.workers[w].pc = "frame"
    /\ livecap' = [livecap EXCEPT !.workers[w].pc = "cleanup"]
    /\ UNCHANGED <<core, servo, tracking, camera, reader>>

\* capture_worker, lines 345-349: finally
CaptureCleanup(w) ==
    /\ livecap.workers[w].pc = "cleanup"
    /\ livecap' =
          IF livecap.instance = 0 THEN [livecap EXCEPT !.workers[w].pc = "done"]
          ELSE [livecap EXCEPT !.objects[livecap.instance] = cleanup(@),
                               !.workers[w].pc = "done"]
    /\ UNCHANGED <<core, servo, tracking, camera, reader>>

\* the capture workers inside the while loop
Capturing(l) == {w \in 1..Len(l.workers) : l.workers[w].pc \in {"loop", "frame"}}

NextLiveCap ==
    \/ LiveCapCall
    \/ \E c \in 1..Len(livecap.callers) : OverlayCheck(c)
    \/ \E c \in 1..Len(livecap.callers) : OverlayFlag(c)
    \/ \E c \in 1..Len(livecap.callers) : OverlayStart(c)
    \/ \E c \in 1..Len(livecap.callers) : OverlayStop(c)
    \/ \E c \in 1..Len(livecap.callers) : OverlayJoin(c)
    \/ \E c \in 1..Len(livecap.callers) : OverlayCleanup(c)
    \/ \E w \in 1..Len(livecap.workers) : CaptureInit(w)
    \/ \E w \in 1..Len(livecap.workers) : CaptureOpen(w)
    \/ \E w \in 1..Len(livecap.workers) : CaptureLoop(w)
    \/ \E w \in 1..Len(livecap.workers) : CaptureFrame(w)
    \/ \E w \in 1..Len(livecap.workers) : CaptureCleanup(w)

SpecLiveCap == Init /\ [][NextLiveCap]_vars

-----------------------------------------------------------------------------
(* CameraController in stream mode (lib/backend/camera_controller.py): the    *)
(* main thread, which waits for the stop event and then cleans up, the stdin  *)
(* command thread and the frame-processing thread.  Each thread is at a       *)
(* statement of its code; a step executes that statement.  camera.writers     *)
(* are the video writers created so far, one per recording started, and       *)
(* video_writer and current_video_path hold an index into them, or 0 for      *)
(* None.  When the main thread has exited the process is gone, and its        *)
(* daemon threads with it.                                                    *)

MaxCommands == 3    \* command lines read from stdin per behaviour

\* cv2.VideoWriter(path, ...): what was done to it, and for its file
VideoWriter == [released |-> 0, late |-> FALSE, saved |-> 0, processed |-> 0]

\* CameraController() and run_stream_mode up to its wait loop
RunStreamMode ==
    /\ camera.op = "none"
    /\ camera' = [op |-> "stream", stop_event |-> FALSE, recording |-> FALSE,
                  video_writer |-> 0, current_video_path |-> 0, writers |-> <<>>,
                  main |-> "wait", stdin |-> "read", processor |-> "get",
                  stopped |-> FALSE, commands |-> 0, exit_read |-> FALSE]
    /\ UNCHANGED <<core, servo, tracking, livecap, reader>>

\* the process is running
Running == camera.op = "stream" /\ camera.main # "exited"

\* the thread's position, as a field name of camera
Goto(c, thread, pc) == [c EXCEPT ![thread] = pc]

\* where a thread goes on when its stop_recording returns
AfterStop(thread) == IF thread = "main" THEN "camera" ELSE "read"

\* where a thread goes on when its stop_recording raises: the command thread
\* logs the error and reads on, the main thread leaves cleanup and the process
AfterRaise(thread) == IF thread = "main" THEN "exited" ELSE "read"

\* _stdin_reader, line 267-270: EXIT sets the stop event and ends the loop
ExitCommandIgnored(c) == [c EXCEPT !.stdin = "ended", !.exit_read = TRUE]

ExitCommand(c) == [c EXCEPT !.stdin = "ended", !.exit_read = TRUE, !.stop_event = TRUE]

\* _stdin_reader, lines 261-282: the next command line
Command ==
    /\ Running
    /\ camera.stdin = "read"
    /\ camera.commands < MaxCommands
    /\ \E line \in {"EXIT", "START_RECORDING", "STOP_RECORDING"} :
          camera' = [(CASE line = "EXIT" -> ExitCommand(camera)
                        [] line = "START_RECORDING" -> Goto(camera, "stdin", "start")
                        [] line = "STOP_RECORDING" -> Goto(camera, "stdin", "stop"))
                     EXCEPT !.commands = @ + 1]
    /\ UNCHANGED <<core, servo, tracking, livecap, reader>>

\* start_recording, lines 84-85
StartRecordingCheck ==
    /\ Running
    /\ camera.stdin = "start"
    /\ camera' = Goto(camera, "stdin", IF camera.recording THEN "read" ELSE "path")
    /\ UNCHANGED <<core, servo, tracking, livecap, reader>>

\* start_recording, lines 88-97: current_video_path
StartRecordingPath ==
    /\ Running
    /\ camera.stdin = "path"
    /\ camera' = [Goto(camera, "stdin", "writer")
                     EXCEPT !.current_video_path = Len(camera.writers) + 1]
    /\ UNCHANGED <<core, servo, tracking, livecap, reader>>

\* start_recording, lines 100-106: video_writer = cv2.VideoWriter(...)
StartRecordingWriter ==
    /\ Running
    /\ camera.stdin = "writer"
    /\ camera' = [Goto(camera, "stdin", "flag")
                     EXCEPT !.writers = Append(@, VideoWriter),
                            !.video_writer = Len(camera.writers) + 1]
    /\ UNCHANGED <<core, servo, tracking, livecap, reader>>

\* start_recording, lines 108-109: recording = True
StartRecordingFlag ==
    /\ Running
    /\ camera.stdin = "flag"
    /\ camera' = [Goto(camera, "stdin", "read") EXCEPT !.recording = TRUE]
    /\ UNCHANGED <<core, servo, tracking, livecap, reader>>

\* stop_recording, lines 112-113, in the command thread or in cleanup
StopRecordingCheck(thread) ==
    /\ Running
    /\ camera[thread] = "stop"
    /\ camera' = Goto(camera, thread, IF camera.recording THEN "unflag"
                                      ELSE AfterStop(thread))
    /\ UNCHANGED <<core, servo, tracking, livecap, reader>>

\* stop_recording, lines 116-118: recording = False, if self.video_writer
StopRecordingFlag(thread) ==
    /\ Running
    /\ camera[thread] = "unflag"
    /\ camera' = [Goto(camera, thread, IF camera.video_writer # 0 THEN "release"
                                       ELSE AfterStop(thread))
                     EXCEPT !.recording = FALSE]
    /\ UNCHANGED <<core, servo, tracking, livecap, reader>>

\* stop_recording, line 119: self.video_writer.release(), which raises on None
StopRecordingRelease(thread) ==
    /\ Running
    /\ camera[thread] = "release"
    /\ camera' =
          IF camera.video_writer = 0 THEN Goto(camera, thread, AfterRaise(thread))
          ELSE [Goto(camera, thread, "clear")
                   EXCEPT !.writers[camera.video_writer].released = Min(@ + 1, 2)]
    /\ UNCHANGED <<core, servo, tracking, livecap, reader>>

\* stop_recording, line 120: self.video_writer = None
StopRecordingClear(thread) ==
    /\ Running
    /\ camera[thread] = "clear"
    /\ camera' = [Goto(camera, thread, "report") EXCEPT !.video_writer = 0]
    /\ UNCHANGED <<core, servo, tracking, livecap, reader>>

\* stop_recording, lines 123-127: the RECORDING_SAVED status and process_video
\* for the file current_video_path names
StopRecordingReport(thread) ==
    /\ Running
    /\ camera[thread] = "report"
    /\ camera' = [Goto(camera, thread, AfterStop(thread))
                     EXCEPT !.writers[camera.current_video_path].saved = Min(@ + 1, 2),
                            !.writers[camera.current_video_path].processed = Min(@ + 1, 2)]
    /\ UNCHANGED <<core, servo, tracking, livecap, reader>>

\* _stream_processor, lines 232-235: the loop test and the next frame
ProcessorGet ==
    /\ Running
    /\ camera.processor = "get"
    /\ camera' = Goto(camera, "processor", IF camera.stop_event THEN "done" ELSE "frame")
    /\ UNCHANGED <<core, servo, tracking, livecap, reader>>

\* process_frame, line 193: if self.recording and self.video_writer
ProcessFrameCheck ==
    /\ Running
    /\ camera.processor = "frame"
    /\ camera' = Goto(camera, "processor",
                      IF camera.recording /\ camera.video_writer # 0 THEN "write"
                      ELSE "get")
    /\ UNCHANGED <<core, servo, tracking, livecap, reader>>

\* process_frame, line 194: self.video_writer.write(frame); on None it raises
\* and _stream_processor logs the error
ProcessFrameWrite ==
    /\ Running
    /\ camera.processor = "write"
    /\ camera' =
          IF camera.video_writer = 0 THEN Goto(camera, "processor", "get")
          ELSE [Goto(camera, "processor", "get")
                   EXCEPT !.writers[camera.video_writer].late =
                              @ \/ camera.writers[camera.video_writer].released > 0]
    /\ UNCHANGED <<core, servo, tracking, livecap, reader>>

\* run_stream_mode, lines 222-227: the wait loop ends when the stop event is set
MainLeavesWait ==
    /\ Running
    /\ camera.main = "wait"
    /\ camera.stop_event
    /\ camera' = Goto(camera, "main", "cleanup")
    /\ UNCHANGED <<core, servo, tracking, livecap, reader>>

\* main, lines 536-542: SIGINT or SIGTERM during the wait; the handler sets the
\* stop event and raises SystemExit, and run_stream_mode's finally cleans up
Interrupt ==
    /\ Running
    /\ camera.main = "wait"
    /\ camera' = [Goto(camera, "main", "cleanup") EXCEPT !.stop_event = TRUE]
    /\ UNCHANGED <<core, servo, tracking, livecap, reader>>

\* cleanup, lines 300-301: if self.recording
CleanupCheck ==
    /\ Running
    /\ camera.main = "cleanup"
    /\ camera' = Goto(camera, "main", IF camera.recording THEN "stop" ELSE "camera")
    /\ UNCHANGED <<core, servo, tracking, livecap, reader>>

\* cleanup, lines 304-305: self.camera.stop()
CleanupCamera ==
    /\ Running
    /\ camera.main = "camera"
    /\ camera' = [Goto(camera, "main", "event") EXCEPT !.stopped = TRUE]
    /\ UNCHANGED <<core, servo, tracking, livecap, reader>>

\* cleanup, line 307: self.stop_event.set(); run_stream_mode and main return
CleanupEvent ==
    /\ Running
    /\ camera.main = "event"
    /\ camera' = [Goto(camera, "main", "exited") EXCEPT !.stop_event = TRUE]
    /\ UNCHANGED <<core, servo, tracking, livecap, reader>>

\* the threads that call stop_recording
Stoppers == {"main", "stdin"}

StdinStep ==
    \/ Command
    \/ StartRecordingCheck \/ StartRecordingPath
    \/ StartRecordingWriter \/ StartRecordingFlag
    \/ StopRecordingCheck("stdin") \/ StopRecordingFlag("stdin")
    \/ StopRecordingRelease("stdin") \/ StopRecordingClear("stdin")
    \/ StopRecordingReport("stdin")

ProcessorStep == ProcessorGet \/ ProcessFrameCheck \/ ProcessFrameWrite

MainStep ==
    \/ MainLeavesWait \/ CleanupCheck \/ CleanupCamera \/ CleanupEvent
    \/ StopRecordingCheck("main") \/ StopRecordingFlag("main")
    \/ StopRecordingRelease("main") \/ StopRecordingClear("main")
    \/ StopRecordingReport("main")

NextCamera ==
    \/ RunStreamMode
    \/ Interrupt
    \/ Command
    \/ StartRecordingCheck \/ StartRecordingPath
    \/ StartRecordingWriter \/ StartRecordingFlag
    \/ \E thread \in Stoppers : StopRecordingCheck(thread)
    \/ \E thread \in Stoppers : StopRecordingFlag(thread)
    \/ \E thread \in Stoppers : StopRecordingRelease(thread)
    \/ \E thread \in Stoppers : StopRecordingClear(thread)
    \/ \E thread \in Stoppers : StopRecordingReport(thread)
    \/ ProcessorGet \/ ProcessFrameCheck \/ ProcessFrameWrite
    \/ MainLeavesWait \/ CleanupCheck \/ CleanupCamera \/ CleanupEvent

SpecCamera == Init /\ [][NextCamera]_vars

\* every thread of the running process is scheduled again and again
SpecCameraFair ==
    SpecCamera /\ WF_vars(MainStep) /\ WF_vars(StdinStep) /\ WF_vars(ProcessorStep)

-----------------------------------------------------------------------------
(* RaspberryPi5Camera._read_frames (python_scripts/stream_camera.py): the     *)
(* camera process writes a byte stream, the reading thread takes it in        *)
(* chunks of 4096 bytes and cuts JPEG frames out of it.  reader.stream is a   *)
(* stretch of that stream, preceded by bytes that belong to no frame, and     *)
(* reader.room the number of bytes the chunk being filled still takes: where  *)
(* the chunk boundary falls in the stretch depends on how many bytes came     *)
(* before it.  Bytes are 0..255; reader.frames are the values of jpeg_data,   *)
(* in order, and reader.frame_queue what was put on the queue.                *)

MaxStream == 5    \* bytes the camera process writes per behaviour

maxsize == 5

ReadSize == 4096

start_marker == <<255, 216>>

end_marker == <<255, 217>>

\* the bytes that matter to the reader, and one that does not
Bytes == {255, 216, 217, 0}

Streams == UNION {[1..n -> Bytes] : n \in 1..MaxStream}

\* base64.b64encode(jpeg_data).decode('utf-8'), kept as the text of its bytes
b64encode(jpeg_data) == [b64 |-> jpeg_data]

\* a marker starts at data[i]: both of its bytes are inside this chunk
MarkerAt(data, i, marker) ==
    i < Len(data) - 1 /\ At(data, i) = marker[1] /\ At(data, i + 1) = marker[2]

\* lines 169-205: the scan of one chunk from index i
RECURSIVE Scan(_, _, _)
Scan(data, i, r) ==
    IF i >= Len(data) THEN r
    ELSE IF ~r.start_marker_found /\ MarkerAt(data, i, start_marker)
    THEN Scan(data, i + 2, [r EXCEPT !.buffer = start_marker, !.start_marker_found = TRUE])
    ELSE IF r.start_marker_found /\ MarkerAt(data, i, end_marker)
    THEN LET jpeg_data == r.buffer \o end_marker
         IN  Scan(data, i + 2,
                  [r EXCEPT !.buffer = jpeg_data,
                            !.start_marker_found = FALSE,
                            !.frames = Append(@, jpeg_data),
                            !.frame_queue = IF Len(@) >= maxsize THEN @
                                            ELSE Append(@, b64encode(jpeg_data))])
    ELSE IF r.start_marker_found
    THEN Scan(data, i + 1, [r EXCEPT !.buffer = Append(@, At(data, i))])
    ELSE Scan(data, i + 1, r)

\* lines 153-158: the reading thread, no start marker found so far
Reading(stream, room) ==
    [op |-> "reading", stream |-> stream, pending |-> stream, room |-> room,
     buffer |-> <<>>, start_marker_found |-> FALSE, frames |-> <<>>, frame_queue |-> <<>>]

\* the frames of a stream that arrives in one piece
Whole(stream) == Scan(stream, 0, Reading(stream, ReadSize)).frames

\* RaspberryPi5Camera.start: the camera process and the reading thread
StartStream ==
    /\ reader.op = "none"
    /\ \E stream \in Streams, room \in 1..Min(ReadSize, MaxStream) :
          reader' = Reading(stream, room)
    /\ UNCHANGED <<core, servo, tracking, livecap, camera>>

\* lines 160-205: read(4096) returns the rest of the chunk, or what is left
\* of the stream, and the loop scans it
ReadChunk ==
    /\ reader.op = "reading"
    /\ reader.pending # <<>>
    /\ LET n == Min(reader.room, Len(reader.pending))
       IN  reader' = [Scan(SubSeq(reader.pending, 1, n), 0, reader)
                         EXCEPT !.pending = SubSeq(reader.pending, n + 1, Len(reader.pending)),
                                !.room = ReadSize]
    /\ UNCHANGED <<core, servo, tracking, livecap, camera>>

\* lines 163-165: the read returns nothing, the stream has ended
EndOfStream ==
    /\ reader.op = "reading"
    /\ reader.pending = <<>>
    /\ reader' = [reader EXCEPT !.op = "ended"]
    /\ UNCHANGED <<core, servo, tracking, livecap, camera>>

NextReader == StartStream \/ ReadChunk \/ EndOfStream

SpecReader == Init /\ [][NextReader]_vars

-----------------------------------------------------------------------------
(* Properties *)

IsFit(call) == call.op = "fit"

IsSmoothing(call) == call.op \in {"get_smoothed_bone_euler", "get_smoothed_location"}

IsAccessor(call) ==
    call.op \in {"get_smoothed_bone_euler", "get_smoothed_location", "get_scale",
                 "eval_bone_matrix_world"}

\* the history a smoothing query reads
HistoryOf(call) ==
    IF call.op = "get_smoothed_bone_euler" THEN euler_angle_history ELSE location_history

\* positions of the samples within the half-width of query_t
Window(history, query_t) ==
    {i \in 1..Len(history) : Abs(history[i][2] - query_t) < smooth_range}

Newest(positions) == CHOOSE i \in positions : \A j \in positions : j <= i

IsPrefix(s, u) == Len(s) <= Len(u) /\ SubSeq(u, 1, Len(s)) = s

Ordered(ts) == \A i, j \in 1..Len(ts) : i < j => ts[i] <= ts[j]

Timestamps(history) == [i \in 1..Len(history) |-> history[i][2]]

WellFormed(call) == Len(call.kpts) = K /\ Len(call.valid) = K

\* no direction pair of the frame has both of its keypoints valid
NoDirectionPair(valid) ==
    \A p \in 1..Len(kpt_pairs_a) :
        ~(/\ InRange(valid, kpt_pairs_a[p]) /\ InRange(valid, kpt_pairs_b[p])
          /\ At(valid, kpt_pairs_a[p]) /\ At(valid, kpt_pairs_b[p]))

\* C1: a fit on a frame in which no direction pair has both keypoints valid
\* leaves the optimizable angle vector as it was before the call.
C1_FitKeepsAnglesWithoutDirectionPair ==
    [][(IsFit(last') /\ NoDirectionPair(last'.valid)) => optim_bone_euler' = optim_bone_euler]_vars

\* a fit returned on a frame with valid keypoints but no valid direction pair,
\* on a solver whose angles an earlier fit had moved
C1_Witness ==
    /\ IsFit(last) /\ last.err = "none" /\ WellFormed(last)
    /\ NoDirectionPair(last.valid) /\ \E i \in 1..K : last.valid[i]
    /\ optim_bone_euler[1] = 1

\* C2: with an empty history both smoothing queries fail, whatever the query time.
C2_EmptyHistoryQueryFails ==
    (IsSmoothing(last) /\ HistoryOf(last) = <<>>) => (last.err # "none" /\ last.val = <<>>)

C2_Witness == IsSmoothing(last) /\ HistoryOf(last) = <<>> /\ last.t = MaxT

\* C3: when one or two samples lie within the half-width of the query time, the
\* query returns the stored value of the most recently appended of them.
C3_FewSamplesReturnNewest ==
    IsSmoothing(last) =>
        LET w == Window(HistoryOf(last), last.t)
        IN  Cardinality(w) \in {1, 2} =>
                /\ last.err = "none"
                /\ last.val = <<"sample", HistoryOf(last)[Newest(w)][1]>>

\* two samples of different value in the window and a third one outside it
C3_Witness ==
    /\ IsSmoothing(last)
    /\ LET h == HistoryOf(last)
           w == Window(h, last.t)
       IN  /\ Cardinality(w) = 2 /\ Len(h) = 3
           /\ \E i, j \in w : h[i][1] # h[j][1]

\* C4 (as claimed): on a non-empty history every smoothing query succeeds, and a
\* query whose window holds no sample returns the most recent sample.
C4_QuerySucceedsOnNonEmptyHistory ==
    (IsSmoothing(last) /\ HistoryOf(last) # <<>>) =>
        /\ last.err = "none"
        /\ Window(HistoryOf(last), last.t) = {} =>
               last.val = <<"sample", HistoryOf(last)[Len(HistoryOf(last))][1]>>

\* C5: a fit on a well-formed frame returns without error and appends one entry
\* with the frame's timestamp to each history; both histories are as long as
\* the number of fit calls that returned.
C5_FitAppendsOneSampleToEach ==
    /\ [](/\ Len(euler_angle_history) = Len(calls)
          /\ Len(location_history) = Len(calls))
    /\ [][(IsFit(last') /\ WellFormed(last')) =>
            /\ last'.err = "none"
            /\ Len(euler_angle_history') = Len(euler_angle_history) + 1
            /\ Len(location_history') = Len(location_history) + 1
            /\ euler_angle_history'[Len(euler_angle_history')][2] = last'.t
            /\ location_history'[Len(location_history')][2] = last'.t
            /\ calls' = Append(calls, last'.t)]_vars

\* a second fit returned although the frame had no valid direction pair
C5_Witness ==
    /\ IsFit(last) /\ last.err = "none" /\ WellFormed(last)
    /\ NoDirectionPair(last.valid)
    /\ Len(euler_angle_history) = 2 /\ Len(location_history) = 2

\* C6: the histories are append-only: every step keeps each entry at its
\* position with its value and timestamp.
C6_HistoryAppendOnly ==
    [][/\ IsPrefix(euler_angle_history, euler_angle_history')
       /\ IsPrefix(location_history, location_history')]_vars

\* a fit appended after an earlier sample with the same timestamp
C6_Witness ==
    /\ IsFit(last) /\ last.err = "none"
    /\ Len(euler_angle_history) = 2
    /\ euler_angle_history[1][2] = euler_angle_history[2][2]
    /\ euler_angle_history[1][1] # euler_angle_history[2][1]

\* C7 (as claimed): in every reachable state both histories are ordered by
\* non-decreasing timestamp.
C7_HistoryAlwaysOrdered ==
    /\ Ordered(Timestamps(euler_angle_history))
    /\ Ordered(Timestamps(location_history))

\* C7 (amended): when the fit calls came with non-decreasing timestamps, both
\* histories are ordered by non-decreasing timestamp.
C7_OrderedCallsGiveOrderedHistory ==
    Ordered(calls) =>
        /\ Ordered(Timestamps(euler_angle_history))
        /\ Ordered(Timestamps(location_history))

C7_Witness ==
    /\ Len(calls) = 2 /\ calls[1] < calls[2]
    /\ Len(euler_angle_history) = 2 /\ Len(location_history) = 2

\* C8: the accessors leave the angle vector, the scale estimate and both
\* histories as they were.
C8_AccessorsKeepSolverState ==
    [][IsAccessor(last') => UNCHANGED solver]_vars

\* a smoothing query answered on a history with a sample outside its window
C8_Witness ==
    /\ last.op = "get_smoothed_bone_euler" /\ last.err = "none"
    /\ Len(euler_angle_history) = 2
    /\ Cardinality(Window(euler_angle_history, last.t)) = 1

\* C9 (as claimed): a fit whose keypoint or validity array is not of length K
\* fails and leaves the solver state as it was.
C9_MalformedFitRejected ==
    [][(IsFit(last') /\ ~WellFormed(last')) => (last'.err # "none" /\ UNCHANGED solver)]_vars

\* C10: a fit that computed a scale stores it when it is positive and keeps the
\* stored scale otherwise.
C10_ScaleStoredIffPositive ==
    [][(IsFit(last') /\ last'.err = "none") =>
            align_scale' = (IF last'.scale > 0 THEN last'.scale ELSE align_scale)]_vars

\* a fit computed the scale zero on a solver holding a positive scale
C10_Witness ==
    /\ IsFit(last) /\ last.err = "none"
    /\ last.scale = 0 /\ align_scale > 0

\* no scale pair of the frame has both of its keypoints valid
NoScalePair(valid) ==
    \A p \in 1..Len(align_scale_pairs_kpt) :
        ~(/\ InRange(valid, align_scale_pairs_kpt[p][1])
          /\ InRange(valid, align_scale_pairs_kpt[p][2])
          /\ At(valid, align_scale_pairs_kpt[p][1])
          /\ At(valid, align_scale_pairs_kpt[p][2]))

\* the scale a fit on kpts leaves in a solver that held the scale prior
FittedScale(prior, kpts) ==
    IF ScalePositive(ComputedScale(kpts)) THEN ComputedScale(kpts) ELSE prior

\* two keypoint arrays with the same coordinates at every valid keypoint
AgreeOnValid(kpts, other, valid) ==
    /\ Len(other) = Len(kpts)
    /\ \A i \in 1..Len(kpts) : valid[i] => other[i] = kpts[i]

Shifts == {-1, 1, 2}

Translate(kpts, c) == [i \in 1..Len(kpts) |-> kpts[i] + c]

NewestLocation == location_history[Len(location_history)][1]

FitReturned(call) == IsFit(call) /\ call.err = "none" /\ WellFormed(call)

\* C11 (as claimed): a fit on a frame in which no scale pair has both keypoints
\* valid leaves the persisted scale as it was.
C11_ScaleKeptWithoutScalePair ==
    [][(IsFit(last') /\ NoScalePair(last'.valid)) => align_scale' = align_scale]_vars

\* C12 (as claimed): the persisted scale after a fit is the same for every frame
\* with the same validity mask and the same coordinates at the valid keypoints.
C12_ScaleIgnoresInvalidKeypoints ==
    [][FitReturned(last') =>
         \A other \in KptFrames :
            AgreeOnValid(last'.kpts, other, last'.valid) =>
                FittedScale(align_scale, other) = align_scale']_vars

\* C13: the scale a fit computes, and the scale it persists when that is
\* positive, are those of the same frame translated by any constant.
C13_ScaleTranslationInvariant ==
    FitReturned(last) =>
        \A c \in Shifts :
            LET s == ComputedScale(Translate(last.kpts, c))
            IN  /\ s = last.scale
                /\ s > 0 => align_scale = s

\* a fit on the translated rest pose stored its scale
C13_Witness ==
    /\ FitReturned(last)
    /\ last.kpts[1] # 0 /\ last.scale > 0 /\ align_scale = last.scale

\* C14: the optimizer's iteration cap is the first-frame budget on a fit made
\* while no fit has returned yet, and the configured max_iter on every later fit.
C14_FirstFitBudget ==
    IsFit(last) =>
        LET returnedBefore == IF last.err = "none" THEN Len(calls) - 1 ELSE Len(calls)
        IN  last.iters = (IF returnedBefore = 0 THEN first_max_iter ELSE max_iter)

\* a first and a second fit, seen with their budgets
C14_Witness ==
    /\ IsFit(last) /\ last.err = "none" /\ Len(calls) = 2 /\ last.iters = max_iter
    /\ first_max_iter > max_iter

\* the location of the claimed full-skeleton pass, times the number of
\* alignment bones: mean keypoint minus mean world translation, over LocDen
FullSkeletonLocation(kpts, euler, scale) ==
    LET world == BoneMatrixWorld(euler, 0, scale)
        kpt_sum == SumSeq([k \in 1..Len(align_location_kpts) |-> At(kpts, align_location_kpts[k])])
        bone_sum == SumSeq([b \in 1..Len(align_location_bones) |->
                            At(world, align_location_bones[b]).t])
    IN  Len(align_location_bones) * Len(align_location_bones) * ScaleDen * kpt_sum - bone_sum

\* C15 (as claimed): the location a fit records is the mean alignment keypoint
\* minus the mean alignment-bone translation of eval_bone_matrix_world at the
\* fitted angles, zero location and the frame's scale.
C15_LocationFromFullSkeleton ==
    FitReturned(last) =>
        Len(align_location_bones) * NewestLocation
            = FullSkeletonLocation(last.kpts, optim_bone_euler, last.scale)

\* C16 (as claimed): the transforms behind the recorded location are scaled by
\* the persisted scale, also when the frame's computed scale is not positive.
C16_LocationUsesPersistedScale ==
    FitReturned(last) => NewestLocation = Location(last.kpts, optim_bone_euler, align_scale)

-----------------------------------------------------------------------------
(* Kinematic evaluator *)

IsForward(call) == call.op \in {"forward", "backward"}

Bones(call) == 0..(Len(call.parents) - 1)

Local(call, i) == mm(At(call.matrix_bones, i), At(call.matrix_basis, i))

\* C17: for every hierarchy in topological order and every assignment of basis
\* matrices, the forward pass returns world[i] = world[parent[i]] . rest[i] .
\* basis[i] for a non-root bone and world[i] = rest[i] . basis[i] for a root.
C17_ForwardComposesParentChain ==
    IsForward(fcall) =>
        /\ Len(fcall.matrix_world) = Len(fcall.parents)
        /\ \A i \in Bones(fcall) :
              At(fcall.matrix_world, i) =
                  IF At(fcall.parents, i) < 0 THEN Local(fcall, i)
                  ELSE mm(At(fcall.matrix_world, At(fcall.parents, i)), Local(fcall, i))

\* a three-bone chain whose bones all turn and carry an offset
C17_Witness ==
    /\ fcall.op = "forward"
    /\ fcall.parents = <<-1, 0, 1>>
    /\ \A i \in Bones(fcall) : At(fcall.matrix_basis, i) = euler_angle_to_matrix(1)
    /\ At(fcall.matrix_world, 2) # Local(fcall, 2)

RECURSIVE DWorld(_, _), ChildSum(_, _, _)
\* the gradient reaching world[i]: the incoming one plus dWorld[c] . local[c]^T
\* of every child c of i
DWorld(call, i) == madd(At(call.grad_in, i), ChildSum(call, i, Len(call.parents) - 1))

\* the contributions to bone i of its children among bones i+1 .. c
ChildSum(call, i, c) ==
    IF c <= i THEN zeros
    ELSE madd(ChildSum(call, i, c - 1),
              IF At(call.parents, c) = i
              THEN mm(DWorld(call, c), transpose(Local(call, c))) ELSE zeros)

\* <G, W>: the sum over bones and entries of G[j][a][b] * W[j][a][b]
Inner(G, W) ==
    SumSeq([j \in 1..Len(G) |->
        SumSeq([e \in 1..4 |-> G[j][((e - 1) \div 2) + 1][((e - 1) % 2) + 1]
                               * W[j][((e - 1) \div 2) + 1][((e - 1) % 2) + 1]])])

\* the scalar whose world gradient is grad_in, as a function of the basis
Loss(call, matrix_basis) ==
    Inner(call.grad_in, eval_matrix_world(call.parents, call.matrix_bones, matrix_basis))

\* the basis with entry (a, b) of bone i stepped by one
Stepped(matrix_basis, i, a, b) ==
    [matrix_basis EXCEPT ![i + 1][a][b] = @ + 1]

\* the forward pass is linear in each entry of basis[i], so the unit-step
\* difference quotient is the derivative
FiniteDifference(call, i) ==
    [a \in Dim |-> [b \in Dim |->
        Loss(call, Stepped(call.matrix_basis, i, a, b)) - Loss(call, call.matrix_basis)]]

\* C20: for every bone the backward pass returns rest[i]^T . world[parent[i]]^T .
\* dWorld[i] (non-root) or rest[i]^T . dWorld[i] (root), dWorld[i] being the
\* incoming world gradient plus its children's contributions, and the result
\* agrees with the finite-difference gradient of the forward pass.
C20_BackwardIsExactDerivative ==
    fcall.op = "backward" =>
        \A i \in Bones(fcall) :
            /\ At(fcall.grad_matrix_basis, i) =
                   IF At(fcall.parents, i) < 0
                   THEN mm(transpose(At(fcall.matrix_bones, i)), DWorld(fcall, i))
                   ELSE mm(transpose(At(fcall.matrix_bones, i)),
                           mm(transpose(At(fcall.matrix_world, At(fcall.parents, i))),
                              DWorld(fcall, i)))
            /\ At(fcall.grad_matrix_basis, i) = FiniteDifference(fcall, i)

\* a chain whose root receives gradient only through its descendants
C20_Witness ==
    /\ fcall.op = "backward"
    /\ fcall.parents = <<-1, 0, 1>>
    /\ At(fcall.grad_in, 0) = zeros
    /\ At(fcall.grad_in, 1) = zeros
    /\ At(fcall.grad_in, 2) # zeros
    /\ At(fcall.grad_matrix_basis, 0) # zeros

-----------------------------------------------------------------------------
(* Construction *)

Constructed(call) == call.op = "construct" /\ call.err = "none"

Topological(parents_id) ==
    \A i \in 0..(Len(parents_id) - 1) :
        At(parents_id, i) = -1 \/ (At(parents_id, i) >= 0 /\ At(parents_id, i) < i)

Inconsistent(export) ==
    \/ \E i \in 1..Len(export.bone_parents) :
          export.bone_parents[i] # None /\ ~Contains(export.bone_names, export.bone_parents[i])
    \/ Len(export.bone_parents) # Len(export.bone_names)
    \/ Len(export.bone_matrix) # Len(export.bone_names)

\* C19: constructing a solver from inconsistent skeleton data (a parent that
\* is not in the bone list, or parent or rest-matrix arrays whose lengths do
\* not match the bone list) fails with an error and yields no solver.
C19_InconsistentDataRejected ==
    (fcall.op = "construct" /\ Inconsistent(fcall.export)) =>
        fcall.err # "none" /\ fcall.self = NoSolver

\* a rest-matrix array one short, of a bone the subset does not use
C19_Witness ==
    /\ fcall.op = "construct"
    /\ Len(fcall.export.bone_names) = 3
    /\ Len(fcall.export.bone_matrix) = 2
    /\ Len(fcall.export.bone_parents) = 3
    /\ Range(fcall.export.remap) = {"hips"}
    /\ fcall.err = "LoadError"

-----------------------------------------------------------------------------
(* Purity of the evaluators *)

\* C21: the kinematic evaluator's forward and backward passes modify none of
\* their inputs: after the backward pass the caller's world-gradient array
\* holds what it held before the call.
C21_BackwardKeepsWorldGradient ==
    fcall.op = "backward" => fcall.grad_out = fcall.grad_in

IsEval(call) == call.op = "eval_bone_matrix_world"

\* the loop's call and the second consumer's finished call have equal arguments
SameArguments ==
    /\ IsEval(last)
    /\ fcall.op = "evaluated"
    /\ last.kpts = fcall.bone_euler
    /\ last.t = fcall.location
    /\ last.scale = fcall.scale

ForwardWorld(call) ==
    eval_matrix_world(all_bone_parents_id, all_bone_matrix, Gather(call.kpts, all_gather_id))

\* C23: eval_bone_matrix_world returns, for every bone of the full skeleton,
\* the forward-pass world transform with only its translation multiplied by
\* scale and location then added to it; the rotation part is the unscaled
\* forward-pass rotation.
C23_OnlyTranslationScaled ==
    IsEval(last) =>
        /\ Len(last.val) = Len(all_bone_names)
        /\ \A i \in 1..Len(last.val) :
              /\ last.val[i].t = last.scale * Trans(ForwardWorld(last)[i]) * (LocDen \div ScaleDen)
                                   + last.t
              /\ last.val[i].r = ScaleDen * Rot(ForwardWorld(last)[i])

-----------------------------------------------------------------------------
(* Order of the backward pass *)

InBackwardLoop(call) == call.op = "backward_loop"

\* the bones the loop has visited, and the bone it visits next
Visited(call) == {BoneOrder(Len(call.parents))[k] : k \in 1..call.visited}

Pending(call) == BoneOrder(Len(call.parents))[call.visited + 1]

Children(call, i) == {c \in Bones(call) : At(call.parents, c) = i}

\* C24: in the backward pass bones are processed from the highest index to
\* the lowest, and the gradient with respect to basis[i] is computed only
\* after the contributions of all children of bone i have been accumulated
\* into the bone's own world gradient.
C24_ChildrenBeforeParent ==
    (InBackwardLoop(fcall) /\ fcall.visited < Len(fcall.parents)) =>
        /\ Pending(fcall) = Len(fcall.parents) - 1 - fcall.visited
        /\ Children(fcall, Pending(fcall)) \subseteq Visited(fcall)
        /\ At(fcall.grad_out, Pending(fcall)) = DWorld(fcall, Pending(fcall))
        /\ At(fcall.grad_matrix_basis, Pending(fcall)) = zeros

\* the root of a chain is about to be visited; its world gradient came from
\* its descendants only
C24_Witness ==
    /\ InBackwardLoop(fcall)
    /\ fcall.parents = <<-1, 0, 1>>
    /\ fcall.visited = 2
    /\ At(fcall.grad_in, 0) = zeros
    /\ At(fcall.grad_out, 0) # zeros
    /\ At(fcall.grad_out, 0) = DWorld(fcall, 0)

-----------------------------------------------------------------------------
(* Angles to basis matrices *)

\* the basis a bone is to receive: the rotation of its parameter row, or the
\* identity when it is not optimizable
BasisFor(bone, euler) ==
    IF Contains(optimizable_bones, bone)
    THEN euler_angle_to_matrix(euler[IndexOf(optimizable_bones, bone) + 1])
    ELSE eye

\* every bone of the pass receives its basis, and every parameter row is the
\* row of exactly one bone of the pass
MappedByRemap(pass, euler) ==
    /\ \A i \in 1..Len(pass.bones) :
          /\ i <= Len(pass.basis)
          /\ pass.basis[i] = BasisFor(pass.bones[i], euler)
    /\ \A k \in 1..Len(optimizable_bones) :
          Cardinality({i \in 1..Len(pass.bones) : pass.bones[i] = optimizable_bones[k]}) = 1

\* C25: when an angle vector is mapped to per-bone basis matrices, in fit's
\* loss, in fit's location step and in eval_bone_matrix_world, every
\* non-optimizable bone receives the identity and the optimizable bone with
\* parameter index k the rotation of row k; no two bones share a row and no
\* row is left unused.
C25_BasisFollowsRemap ==
    FitReturned(last) =>
        /\ MappedByRemap(LossBasis(optim_bone_euler), optim_bone_euler)
        /\ MappedByRemap(LocationBasis(optim_bone_euler), optim_bone_euler)
        /\ MappedByRemap(EvalBasis(optim_bone_euler), optim_bone_euler)

-----------------------------------------------------------------------------
(* fit, step by step *)

\* C26: every call to fit terminates: the optimization loop stops after at
\* most the iteration cap in force for that call, after which the location
\* is computed and the history entries are appended.
C26_FitTerminates ==
    /\ [](Stepping => fcall.n_iter <= fcall.max_iter /\ fcall.max_iter = last.iters)
    /\ [](FitReturned(last) =>
            /\ Len(euler_angle_history) = Len(calls)
            /\ Len(location_history) = Len(calls)
            /\ euler_angle_history[Len(calls)] = <<optim_bone_euler, last.t>>
            /\ location_history[Len(calls)][2] = last.t)
    /\ (InFit ~> FitReturned(last))

\* the optimizer has used up its cap and fit has not yet returned
C26_Witness ==
    /\ InFit /\ Stepping
    /\ fcall.n_iter = fcall.max_iter
    /\ fcall.max_iter = max_iter

\* C27: a fit that runs the optimizer from an angle vector no earlier
\* optimization has updated uses the larger first-frame iteration budget,
\* also when earlier frames were processed without optimizing.
C27_ColdStartGetsFirstBudget ==
    (InFit /\ fcall.op = "LBFGS.step" /\ fcall.runs = 1) => fcall.max_iter = first_max_iter

-----------------------------------------------------------------------------
(* fit, then the queries at the frame's time *)

\* the query at the time of the fit just returned succeeds, and the last
\* sample it selects is the one the fit appended
SelectsNewest(history) ==
    /\ history # <<>>
    /\ Smoothed(history, last.t)[1] = "none"
    /\ InWindow(history, last.t) # <<>>
    /\ InWindow(history, last.t)[Len(InWindow(history, last.t))] = history[Len(history)]
    /\ history[Len(history)][2] = last.t

\* C28: immediately after fit(kpts, valid, t) returns, get_smoothed_bone_euler(t)
\* and get_smoothed_location(t) succeed and the window they select contains
\* the sample just appended for t, whatever the earlier history.
C28_QueryAfterFitSucceeds ==
    FitReturned(last) =>
        SelectsNewest(euler_angle_history) /\ SelectsNewest(location_history)

\* the earlier samples lie outside the window: only the new one is selected
C28_Witness ==
    /\ FitReturned(last)
    /\ Len(euler_angle_history) = 3
    /\ Len(InWindow(euler_angle_history, last.t)) = 1
    /\ SelectsNewest(euler_angle_history)
    /\ SelectsNewest(location_history)

-----------------------------------------------------------------------------
(* The angle history against the live angle vector *)

NewestMatchesAngles ==
    (~InFit /\ euler_angle_history # <<>>) =>
        euler_angle_history[Len(euler_angle_history)][1] = optim_bone_euler

\* C29: after every completed fit, and until the next fit starts, the last
\* entry of the angle history equals the solver's current angle vector, and
\* it is an independent copy: optimization steps on the live angle vector
\* never alter a value already in the history.
C29_HistoryHoldsCopies ==
    /\ []NewestMatchesAngles
    /\ [][IsPrefix(euler_angle_history, euler_angle_history')]_vars

\* the second fit's optimizer moved the angles away from the first sample
C29_Witness ==
    /\ ~InFit
    /\ Len(euler_angle_history) = 2
    /\ fcall.op = "LBFGS.step" /\ fcall.runs = 2 /\ fcall.n_iter > 0
    /\ euler_angle_history[1][1] # optim_bone_euler
    /\ euler_angle_history[2][1] = optim_bone_euler

-----------------------------------------------------------------------------
(* update_eval_matrix *)

IsUpdate(call) == call.op = "update_eval_matrix"

RECURSIVE HasUpdatedAncestor(_, _)
\* a proper ancestor of bone i is a key of updated_bones
HasUpdatedAncestor(call, i) ==
    /\ At(call.bone_parents, i) >= 0
    /\ \/ At(call.bone_parents, i) \in DOMAIN call.updated_bones
       \/ HasUpdatedAncestor(call, At(call.bone_parents, i))

\* C30: update_eval_matrix returns world matrices in which every bone that is
\* not itself in updated_bones keeps its original transform relative to its
\* parent, updated[i] = updated[parent[i]] . original[parent[i]]^-1 .
\* original[i], for every descendant of an updated bone at any depth, while
\* bones with no updated ancestor are returned unchanged.
C30_DescendantsFollowUpdatedBones ==
    IsUpdate(fcall) =>
        \A i \in 0..(Len(fcall.bone_parents) - 1) :
            i \notin DOMAIN fcall.updated_bones =>
                At(fcall.val, i) =
                    IF HasUpdatedAncestor(fcall, i)
                    THEN mm(At(fcall.val, At(fcall.bone_parents, i)),
                            mm(inverse(At(fcall.bone_matrix_world, At(fcall.bone_parents, i))),
                               At(fcall.bone_matrix_world, i)))
                    ELSE At(fcall.bone_matrix_world, i)

-----------------------------------------------------------------------------
(* Servo pulse widths *)

InServoRange(pw) == Pw(SERVO_MIN_PW) <= pw /\ pw <= Pw(SERVO_MAX_PW)

\* C31: the tracked pan and tilt pulse widths of a TrackingSystem lie within
\* [500, 2500], every pulse width commanded by tracking, manual positioning,
\* centering or construction lies in that range, and 0 is commanded by
\* cleanup only.
C31_PulseWidthsInRange ==
    servo.op # "none" =>
        /\ InServoRange(servo.ts.current_pan_pw)
        /\ InServoRange(servo.ts.current_tilt_pw)
        /\ \A k \in 1..Len(servo.ts.sent) :
              \/ InServoRange(servo.ts.sent[k])
              \/ servo.ts.sent[k] = 0 /\ servo.op = "cleanup"

\* tracking has driven the pan servo into the upper clamp and the tilt servo
\* into the lower one
C31_Witness ==
    /\ servo.op = "track_person"
    /\ servo.ts.sent = <<Pw(SERVO_MAX_PW), Pw(SERVO_MIN_PW)>>
    /\ servo.ts.current_pan_pw = Pw(SERVO_MAX_PW)
    /\ servo.ts.current_tilt_pw = Pw(SERVO_MIN_PW)

-----------------------------------------------------------------------------
(* The tracking worker and its TrackingSystem *)

\* a start_tracking request passes its first statement while a worker is alive
StartsWhileAlive(h) ==
    /\ h \in 1..Len(tracking.handlers)
    /\ StartCheck(h)
    /\ AliveWorkers(tracking) # {}

\* C33: at most one _tracking_worker thread is alive at any time, and a
\* start_tracking issued while a worker is alive reports "Already running"
\* and creates neither a TrackingSystem nor a thread.
C33_AtMostOneTrackingWorker ==
    /\ [](Cardinality(AliveWorkers(tracking)) <= 1)
    /\ [][\A h \in 1..MaxRequests : StartsWhileAlive(h) =>
             /\ tracking'.status = "Already running"
             /\ tracking'.objects = tracking.objects
             /\ tracking'.workers = tracking.workers]_vars

\* C34: once cleanup() has been called on a TrackingSystem, no further call
\* is made on its servo connection: no pulse width command and no second
\* cleanup.
C34_NoCallAfterCleanup ==
    \A i \in 1..Len(tracking.objects) : ~tracking.objects[i].misused

-----------------------------------------------------------------------------
(* The capture worker *)

\* C32: at most one capture_worker thread is executing the capture loop at
\* any time, for any sequence or interleaving of start_simple_overlay,
\* stop_simple_overlay, start_livecap and stop_livecap, also when a stop's
\* join times out and a start follows before the old worker has exited.
C32_AtMostOneCaptureWorker ==
    Cardinality(Capturing(livecap)) <= 1

-----------------------------------------------------------------------------
(* Recording in the camera controller *)

\* C35: a frame is written only to a video writer that is open - process_frame
\* never calls write on a writer that stop_recording has released - and
\* whenever recording is true a writer is present.
C35_WritesOnlyToOpenWriter ==
    camera.op = "stream" =>
        /\ \A w \in 1..Len(camera.writers) : ~camera.writers[w].late
        /\ camera.recording => camera.video_writer # 0

\* a recording has been started: its start_recording has set recording
Started(w) ==
    /\ w \in 1..Len(camera.writers)
    /\ w < Len(camera.writers) \/ camera.stdin # "flag"

FinalisedOnce(writer) ==
    writer.released = 1 /\ writer.saved = 1 /\ writer.processed = 1

\* C36: every recording started by START_RECORDING is finalised exactly once:
\* its writer released, one RECORDING_SAVED status emitted and one processing
\* run launched for its file - never twice, and once by the time the process
\* has exited.
C36_RecordingFinalisedOnce ==
    camera.op = "stream" =>
        \A w \in 1..Len(camera.writers) :
            /\ camera.writers[w].released <= 1
            /\ camera.writers[w].saved <= 1
            /\ camera.writers[w].processed <= 1
            /\ (camera.main = "exited" /\ Started(w)) => FinalisedOnce(camera.writers[w])

\* EXIT has been read while the main thread was in its wait loop
ExitRead == camera.op = "stream" /\ camera.exit_read /\ camera.main = "wait"

ShutDown ==
    /\ camera.op = "stream"
    /\ camera.stop_event
    /\ camera.main = "exited"
    /\ ~camera.recording
    /\ camera.stopped

-----------------------------------------------------------------------------
(* Frames cut out of the camera stream *)

\* C37: the frames _read_frames extracts do not depend on how the stream is
\* split into read chunks: once the stream has been read, whatever the chunks
\* were, the frames are those of the stream read in one piece, each with
\* exactly its own bytes.
C37_FramesIndependentOfChunks ==
    reader.op = "ended" => reader.frames = Whole(reader.stream)

====
